---- MODULE Spec2Model ----
(***************************************************************************)
(* Customer-support email agent: EmailProcessorService.process, the        *)
(* SupportAgent.process_email orchestration loop, the IntentClassifier and *)
(* the ToolRegistry, as a state machine whose steps are the suspension     *)
(* points (awaits) of the Python code.                                     *)
(*                                                                         *)
(* Conventions: a confidence is an integer number of hundredths (0.5 is    *)
(* 50); a text is a sequence of tokens (records with a field t); a Python  *)
(* None is the string "None" or the record None where a record is due.     *)
(***************************************************************************)
EXTENDS Integers, Sequences, FiniteSets, TLC

(***************************************************************************)
(* Bounds of the model.                                                    *)
(***************************************************************************)
\* Most tool calls the model backend requests in one response.
MaxBatch == 2
\* Most tool calls the model backend requests in one run.
MaxToolCalls == 6
\* Most runs of process_email in flight at once.
MaxRuns == 2
\* Most calls made in a row on a component taken alone (the router, a tool,
\* the registry, the order provider, the retrieval service).
MaxCalls == 2
\* Longest order number asked of the order provider, in characters.
MaxLen == 4

(***************************************************************************)
(* Enumerations of classifier.py.                                          *)
(***************************************************************************)
Intent ==
  {"order_status", "shipping_tracking", "return_request", "refund_request",
   "product_question", "policy_question", "complaint", "general_inquiry",
   "escalation_request"}

Complexity == {"simple", "medium", "complex"}

\* A key that the JSON object does not have.
Absent == "<absent>"

(***************************************************************************)
(* Texts returned by the model backend for the classification prompt.      *)
(* Tokens: a code fence, whitespace, a word, prose that is no JSON, a JSON *)
(* array, a JSON object with the three keys the control flow reads.        *)
(***************************************************************************)
Fence == [t |-> "fence", w |-> "fence"]
Ws == [t |-> "ws", w |-> "newline"]
JsonWord == [t |-> "word", w |-> "json"]
Prose == [t |-> "prose", w |-> "Sure, here you go"]
JsonArray == [t |-> "array", w |-> "[]"]

\* conf_kind: "number" (confidence holds it), "string" (a non-numeric JSON
\* string such as "high") or Absent.
JsonObject(intent, complexity, conf_kind, confidence) ==
  [t |-> "object", w |-> "{}", intent |-> intent, complexity |-> complexity,
   conf_kind |-> conf_kind, confidence |-> confidence]

\* str.strip(): leading and trailing whitespace removed.
RECURSIVE LStrip(_)
LStrip(s) == IF Len(s) > 0 /\ s[1].t = "ws" THEN LStrip(Tail(s)) ELSE s

RECURSIVE RStrip(_)
RStrip(s) ==
  IF Len(s) > 0 /\ s[Len(s)].t = "ws" THEN RStrip(SubSeq(s, 1, Len(s) - 1)) ELSE s

Strip(s) == RStrip(LStrip(s))

\* content.split(fence)[1] for a content that starts with a fence: the text
\* between the first fence and the next one (or the end).
RECURSIVE UpToFence(_)
UpToFence(s) ==
  IF Len(s) = 0 \/ s[1].t = "fence" THEN <<>> ELSE <<s[1]>> \o UpToFence(Tail(s))

\* classifier.py 131-136.
StripCodeBlock(content) ==
  IF Len(content) > 0 /\ content[1].t = "fence"
  THEN LET inner == UpToFence(Tail(content))
           body == IF Len(inner) > 0 /\ inner[1].t = "word" /\ inner[1].w = "json"
                   THEN Tail(inner) ELSE inner
       IN Strip(body)
  ELSE content

\* json.loads: one JSON value, whitespace around it allowed; anything else
\* is a JSONDecodeError.
NoValue == [t |-> "none", w |-> ""]

json_loads(s) ==
  LET b == Strip(s)
  IN IF Len(b) = 1 /\ b[1].t \in {"object", "array"}
     THEN [ok |-> TRUE, value |-> b[1]]
     ELSE [ok |-> FALSE, value |-> NoValue]

(***************************************************************************)
(* ClassificationResult (classifier.py 33-43).                             *)
(***************************************************************************)
ClassificationResult(intent, complexity, confidence, rol, rkb, tools, reasoning) ==
  [intent |-> intent, complexity |-> complexity, confidence |-> confidence,
   requires_order_lookup |-> rol, requires_knowledge_base |-> rkb,
   suggested_tools |-> tools, reasoning |-> reasoning]

NoClassification ==
  ClassificationResult("None", "None", 0, FALSE, FALSE, <<>>, "None")

\* A variant of the fallback with another confidence.
FallbackClassificationAlt ==
  ClassificationResult("general_inquiry", "medium", 40, FALSE, TRUE,
                       <<"search_knowledge_base">>,
                       "Failed to parse classification, defaulting to general inquiry")

\* A variant of the fallback that is unsure.
FallbackClassificationUnsure ==
  ClassificationResult("general_inquiry", "medium", 49, FALSE, TRUE,
                       <<"search_knowledge_base">>,
                       "Failed to parse classification, defaulting to general inquiry")

\* classifier.py 142-150: the fallback of a JSONDecodeError.
FallbackClassification ==
  ClassificationResult("general_inquiry", "medium", 50, FALSE, TRUE,
                       <<"search_knowledge_base">>,
                       "Failed to parse classification, defaulting to general inquiry")

\* What a call returns: raised = "None" and the value, or the exception.
Returned(v) == [raised |-> "None", value |-> v]
Raised(e) == [raised |-> e, value |-> NoClassification]

\* classifier.py 152-160: Intent(...), Complexity(...) and float(...) raise
\* ValueError on a value they do not know; a JSON array has no .get.
BuildClassification(obj) ==
  IF obj.t # "object" THEN Raised("AttributeError")
  ELSE LET intent == IF obj.intent = Absent THEN "general_inquiry" ELSE obj.intent
           complexity == IF obj.complexity = Absent THEN "medium" ELSE obj.complexity
           confidence == IF obj.conf_kind = Absent THEN 80 ELSE obj.confidence
       IN IF intent \notin Intent THEN Raised("ValueError")
          ELSE IF complexity \notin Complexity THEN Raised("ValueError")
          ELSE IF obj.conf_kind = "string" THEN Raised("ValueError")
          ELSE Returned(ClassificationResult(intent, complexity, confidence,
                          FALSE, TRUE, <<"search_knowledge_base">>, ""))

\* classifier.py 128-160: from the backend's text to the result of classify.
ParseClassification(content) ==
  LET text == StripCodeBlock(Strip(content))
      parsed == json_loads(text)
  IN IF ~parsed.ok THEN Returned(FallbackClassification)
     ELSE BuildClassification(parsed.value)

\* Variants of should_escalate: without the complaint branch, and with the
\* threshold itself escalating.
should_escalate_no_complaint(classification) ==
  IF classification.intent = "escalation_request" THEN TRUE
  ELSE IF classification.confidence < 50 THEN TRUE
  ELSE FALSE

should_escalate_le(classification) ==
  IF classification.intent = "escalation_request" THEN TRUE
  ELSE IF classification.intent = "complaint" /\ classification.complexity = "complex"
       THEN TRUE
  ELSE IF classification.confidence <= 50 THEN TRUE
  ELSE FALSE

\* classifier.py 162-178.
should_escalate(classification) ==
  IF classification.intent = "escalation_request" THEN TRUE
  ELSE IF classification.intent = "complaint" /\ classification.complexity = "complex"
       THEN TRUE
  ELSE IF classification.confidence < 50 THEN TRUE
  ELSE FALSE


(***************************************************************************)
(* Model router (router.py).                                               *)
(***************************************************************************)
\* router.py 27-46 with the models of config.py 42-44; a temperature is a
\* number of tenths.
tiers(complexity) ==
  CASE complexity = "simple" ->
         [model |-> "gpt-4o-mini", max_tokens |-> 500, temperature |-> 3, tier |-> "simple"]
    [] complexity = "medium" ->
         [model |-> "gpt-4o-mini", max_tokens |-> 1000, temperature |-> 5, tier |-> "medium"]
    [] complexity = "complex" ->
         [model |-> "gpt-4o", max_tokens |-> 2000, temperature |-> 7, tier |-> "complex"]

NoModelConfig == [model |-> "None", max_tokens |-> 0, temperature |-> 0, tier |-> "None"]

\* A variant of intent_overrides without the refund requests.
intent_overrides_no_refund == {"complaint", "escalation_request"}

\* router.py 49-53.
intent_overrides == {"complaint", "refund_request", "escalation_request"}

\* router.py 78-92.
complexity_rank(complexity) ==
  CASE complexity = "simple" -> 1
    [] complexity = "medium" -> 2
    [] complexity = "complex" -> 3
    [] OTHER -> 2

\* A variant of get_model_config that looks at the complexity alone.
get_model_config_by_complexity(complexity, intent) == tiers(complexity)

\* router.py 55-76.
get_model_config(complexity, intent) ==
  IF intent # "None" /\ intent \in intent_overrides
     /\ complexity_rank("complex") > complexity_rank(complexity)
  THEN tiers("complex")
  ELSE tiers(complexity)

(***************************************************************************)
(* Tools (agent/tools).                                                    *)
(***************************************************************************)
\* ToolResult (base.py 8-14); data is a record with a field kind.
NoData == [kind |-> "None"]
ToolResult(success, data, error) == [success |-> success, data |-> data, error |-> error]

\* base.py 16-23: the keys data and error are left out when unset.
to_dict(r) ==
  [success |-> r.success,
   data |-> IF r.data.kind # "None" THEN r.data ELSE [kind |-> Absent],
   error |-> IF r.error \notin {"None", ""} THEN r.error ELSE Absent]

\* core.py 81-85: the names register() is called with.
RegisteredTools ==
  {"search_knowledge_base", "get_order", "get_fulfillment", "get_customer_orders",
   "escalate_to_human"}

\* The parameters without a default in each tool's execute signature
\* (knowledge_base.py 43-45, shopify.py 35, 99, 184-186, escalation.py 55-63).
RequiredParameters(name) ==
  CASE name = "search_knowledge_base" -> {"query"}
    [] name = "get_order" -> {"order_number"}
    [] name = "get_fulfillment" -> {"order_number"}
    [] name = "get_customer_orders" -> {"customer_email"}
    [] name = "escalate_to_human" -> {"reason", "priority", "customer_email", "summary"}
    [] OTHER -> {}

\* A JSON object of tool arguments, by its keys.
ArgsObject(keys) == [t |-> "object", w |-> "{}", keys |-> keys]

\* escalation.py 106-110: the confirmation embeds the priority.
EscalationMessage(priority) ==
  CASE priority = "high" ->
         "Your request has been escalated to our support team. A human agent will review your case with high priority and respond within 24 hours."
    [] priority = "medium" ->
         "Your request has been escalated to our support team. A human agent will review your case with medium priority and respond within 24 hours."
    [] OTHER ->
         "Your request has been escalated to our support team. A human agent will review your case with the given priority and respond within 24 hours."

\* escalation.py 76-118: fault is an exception of db.add / db.flush.
EscalateToHumanTool_execute(priority, fault) ==
  IF fault
  THEN ToolResult(FALSE, NoData, "Failed to create escalation: db error")
  ELSE ToolResult(TRUE,
                  [kind |-> "escalation", escalated |-> TRUE, priority |-> priority,
                   status |-> "pending", message |-> EscalationMessage(priority)],
                  "None")

\* shopify.py 44-69, 108-148, 196-222 and knowledge_base.py 55-92: fault is
\* an exception of the data provider or of the retrieval.
LookupTool_execute(name, fault) ==
  IF fault
  THEN ToolResult(FALSE, NoData, "Failed to retrieve: provider error")
  ELSE ToolResult(TRUE, [kind |-> name], "None")

\* What a dispatch gives: a ToolResult, or the exception it raised.
Result(r) == [raised |-> "None", result |-> r]
ToolRaised(e) == [raised |-> e, result |-> ToolResult(FALSE, NoData, "None")]

\* tool.execute(**kwargs) (base.py 115) on a registered tool, kwargs given by
\* its keys: without one of the required parameters the call itself raises
\* TypeError, outside the try block of the tool's body.
Tool_execute(name, keys, fault) ==
  IF ~(RequiredParameters(name) \subseteq keys) THEN ToolRaised("TypeError")
  ELSE IF name = "escalate_to_human"
       THEN Result(EscalateToHumanTool_execute("args", fault))
  ELSE Result(LookupTool_execute(name, fault))

\* The parameters of ToolRegistry.execute itself (base.py 102): a keyword
\* of the same name collides with them.
OwnParameters == {"self", "name"}

\* base.py 102-115 on a registry holding tools, called as
\* execute(tool_name, **tool_args) at core.py 209: ** of a non-mapping and a
\* keyword named like a parameter of execute are a TypeError of the call; an
\* unknown name is a ToolResult; else the tool is executed.
ToolRegistry_execute_in(tools, name, tool_args, fault) ==
  IF tool_args.t # "object" THEN ToolRaised("TypeError")
  ELSE IF tool_args.keys \cap OwnParameters # {} THEN ToolRaised("TypeError")
  ELSE IF name \notin tools
       THEN Result(ToolResult(FALSE, NoData, "Tool not found"))
  ELSE Tool_execute(name, tool_args.keys, fault)

\* The registry of the agent, after _register_tools.
ToolRegistry_execute(name, tool_args, fault) ==
  ToolRegistry_execute_in(RegisteredTools, name, tool_args, fault)

\* core.py 203-206.
ParseToolArguments(arguments) ==
  LET parsed == json_loads(arguments)
  IN IF parsed.ok THEN parsed.value ELSE ArgsObject({})


(***************************************************************************)
(* Email parser (integrations/email/parser.py); an address is a sequence   *)
(* of characters.                                                          *)
(***************************************************************************)
Letters == {"a", "c", "j", "m", "o", "x", "J"}
LocalChars == Letters \cup {"1", ".", "_", "%", "+", "-"}
DomainChars == Letters \cup {"1", ".", "-"}

\* A variant of validate_email that asks for no top-level domain.
validate_email_no_tld(email) ==
  \E i \in 2..Len(email) :
    /\ email[i] = "@"
    /\ \A k \in 1..(i - 1) : email[k] \in LocalChars
    /\ Len(email) > i
    /\ \A k \in (i + 1)..Len(email) : email[k] \in DomainChars

\* parser.py 57-58: ^[a-zA-Z0-9._%+-]+@[a-zA-Z0-9.-]+\.[a-zA-Z]{2,}$
validate_email(email) ==
  \E i \in 2..Len(email) :
    /\ email[i] = "@"
    /\ \A k \in 1..(i - 1) : email[k] \in LocalChars
    /\ \E j \in (i + 2)..Len(email) :
         /\ email[j] = "."
         /\ \A k \in (i + 1)..(j - 1) : email[k] \in DomainChars
         /\ Len(email) - j >= 2
         /\ \A k \in (j + 1)..Len(email) : email[k] \in Letters

RECURSIVE StripChars(_)
StripChars(s) ==
  IF Len(s) > 0 /\ s[1] = " " THEN StripChars(Tail(s))
  ELSE IF Len(s) > 0 /\ s[Len(s)] = " " THEN StripChars(SubSeq(s, 1, Len(s) - 1))
  ELSE s

\* parser.py 85-88: re.search(r"<([^>]+)>"), else the stripped string.
extract_email_address(email_string) ==
  LET Closes(p, q) ==
        /\ q > p + 1
        /\ email_string[q] = ">"
        /\ \A k \in (p + 1)..(q - 1) : email_string[k] # ">"
      Opens == {p \in 1..Len(email_string) :
                  /\ email_string[p] = "<"
                  /\ \E q \in 1..Len(email_string) : Closes(p, q)}
  IN IF Opens = {} THEN StripChars(email_string)
     ELSE LET p == CHOOSE x \in Opens : \A y \in Opens : x <= y
              q == CHOOSE x \in 1..Len(email_string) : Closes(p, x)
          IN SubSeq(email_string, p + 1, q - 1)

\* The sender strings tried: plain, with a display name, surrounded by
\* blanks, without a domain, without a top-level domain, with a one-letter
\* top-level domain, empty.
FromEmails ==
  { <<"j", "@", "x", ".", "c", "o">>,
    <<"J", " ", "<", "j", "@", "x", ".", "c", "o", ">">>,
    <<" ", "j", "@", "x", ".", "c", "o", " ">>,
    <<"j">>,
    <<"j", "@", "x">>,
    <<"j", "@", "x", ".", "c">>,
    <<"J", " ", "<", "j", ">">>,
    <<>> }


(***************************************************************************)
(* What the model backend may answer.                                      *)
(***************************************************************************)
\* JSON objects answered to the classification prompt: every intent and
\* complexity, a value outside each enumeration, the key missing; the
\* confidence a number, a non-numeric string, or missing.
ConfidenceValues == {0, 49, 50, 51, 100}

ClassifierObjects ==
  { JsonObject(i, c, "number", n) :
      i \in Intent \cup {Absent, "billing_dispute"},
      c \in Complexity \cup {Absent, "hard"},
      n \in ConfidenceValues }
  \cup
  { JsonObject(i, c, k, 0) :
      i \in Intent \cup {Absent, "billing_dispute"},
      c \in Complexity \cup {Absent, "hard"},
      k \in {Absent, "string"} }

\* The ways the backend wraps a payload: bare, fenced with and without the
\* json tag, fenced without a closing fence, padded with whitespace.
Wrappings(payload) ==
  { <<payload>>,
    <<Ws, payload, Ws>>,
    <<Fence, JsonWord, Ws, payload, Ws, Fence>>,
    <<Fence, Ws, payload, Ws, Fence>>,
    <<Fence, JsonWord, Ws, payload>> }

\* Texts that are no JSON, fenced or not.
UnparseableTexts ==
  Wrappings(Prose) \cup { <<>>, <<Fence>>, <<Prose, JsonArray>>, <<JsonWord, Ws, JsonArray>> }

ClassifierTexts ==
  UNION { Wrappings(o) : o \in ClassifierObjects } \cup Wrappings(JsonArray)
  \cup UnparseableTexts

\* The classification answers tried ahead of the tool-calling loop: one per
\* branch of should_escalate, one per kind of failure, and one that reaches
\* the loop (fenced, with an intent override and no confidence).
LoopClassifierTexts ==
  { <<Fence, JsonWord, Ws, JsonObject("refund_request", "medium", Absent, 0), Ws, Fence>>,
    <<JsonObject("escalation_request", "simple", "number", 100)>>,
    <<JsonObject("complaint", "complex", "number", 100)>>,
    <<JsonObject("order_status", "simple", "number", 49)>>,
    <<JsonObject("billing_dispute", "simple", "number", 100)>>,
    <<JsonArray>> }

\* response.usage (core.py 173-175): absent, or the token counts.
NoUsage == [present |-> FALSE, prompt_tokens |-> 0, completion_tokens |-> 0]
Usage(prompt_tokens, completion_tokens) ==
  [present |-> TRUE, prompt_tokens |-> prompt_tokens,
   completion_tokens |-> completion_tokens]

\* The usage reported in the runs of the tool-calling loop.
LoopUsages == { Usage(2, 1) }

\* Whether the data provider behind a lookup tool raises, in the runs of the
\* tool-calling loop (the database behind escalate_to_human may always).
LoopProviderFaults == { FALSE }

\* The tools the backend asks for: a lookup, the escalation, and a name that
\* is not registered.
ToolCallNames == {"get_order", "escalate_to_human", "track_package"}

\* The argument strings of a tool call: a JSON object with every required
\* parameter, a JSON object with none of them, text that is no JSON.
ArgumentTexts(name) ==
  { <<ArgsObject(RequiredParameters(name))>>, <<ArgsObject({})>>, <<Prose>> }

ToolCallRequests ==
  UNION { { [name |-> n, arguments |-> a] : a \in ArgumentTexts(n) } : n \in ToolCallNames }

\* The batches of tool calls of one response; the backend numbers its calls,
\* so the ids of a run are distinct.
ToolCallBatches(used, requests) ==
  LET most == IF MaxToolCalls - used < MaxBatch THEN MaxToolCalls - used ELSE MaxBatch
  IN UNION { { [i \in 1..k |-> [id |-> used + i, name |-> b[i].name,
                                 arguments |-> b[i].arguments]] :
               b \in [1..k -> requests] } :
             k \in 1..most }

\* The answers to a conversational call: a final text (or none), or a batch
\* of tool calls.
ChatResponses(used, usages, requests) ==
  { [content |-> c, tool_calls |-> <<>>, usage |-> u] :
      c \in {"None", "Your order has shipped."}, u \in usages }
  \cup
  { [content |-> "None", tool_calls |-> b, usage |-> u] :
      b \in ToolCallBatches(used, requests), u \in usages }


(***************************************************************************)
(* State.                                                                  *)
(***************************************************************************)
VARIABLES
  pc,                   \* where process / process_email stands
  sender_email,         \* parser.py 113: the address taken from from_email
  classification,       \* core.py 110
  model_config,         \* core.py 138
  messages,             \* core.py 144: the transcript
  tools_used,           \* core.py 106
  tool_results,         \* core.py 107
  total_input_tokens,   \* core.py 158
  total_output_tokens,  \* core.py 159
  iteration,            \* core.py 162
  pending,              \* the tool calls of the current response not yet executed
  agent_response,       \* what process_email returned
  result,               \* what process returned
  escalations,          \* rows of the escalations table
  interaction_logs,     \* number of rows of the interaction log
  classify_calls,       \* chat_completion calls made by classify
  loop_calls,           \* chat_completion calls made by the loop
  exit,                 \* the return statement process_email left by
  raised,               \* the exception process caught, and where it rose
  content,              \* classifier.py 129: the backend's classification text
  observed,             \* what the caller of process has been handed so far
  calls,                \* the calls made on a component taken alone, with their results
  registry,             \* base.py 65: the names in _tools of a ToolRegistry taken alone
  runs,                 \* concurrent runs of process_email: per run, its position and its locals
  loop_log              \* core.py 164-175: each call of the loop, by what it was sent of model_config and the usage it returned

vars ==
  <<pc, sender_email, classification, model_config, messages, tools_used,
    tool_results, total_input_tokens, total_output_tokens, iteration, pending,
    agent_response, result, escalations, interaction_logs, classify_calls,
    loop_calls, exit, raised, content, observed, calls, registry, runs,
    loop_log>>

\* The components taken alone, which a run of process leaves alone.
components == <<calls, registry, runs>>

\* What a step of process leaves alone, but for the calls of the loop.
aside == <<components, loop_log>>

\* A variant with one more pass.
max_iterations_off_by_one == 5 + 1

\* core.py 160.
max_iterations == 5

\* AgentResponse (core.py 25-38), without the wall-clock time.
AgentResponse(text, cls, used, results, model, tin, tout, escalated, reason) ==
  [response_text |-> text, classification |-> cls, tools_used |-> used,
   tool_results |-> results, model_used |-> model, tokens_input |-> tin,
   tokens_output |-> tout, escalated |-> escalated, escalation_reason |-> reason]

NoAgentResponse ==
  AgentResponse("None", NoClassification, <<>>, <<>>, "None", 0, 0, FALSE, "None")

\* ProcessedEmailResponse (email_processor.py 13-29), without the time.
ProcessedEmailResponse(success, r, intent, complexity, interaction_id, error) ==
  [success |-> success, response_text |-> r.response_text, intent |-> intent,
   complexity |-> complexity, tools_used |-> r.tools_used, model_used |-> r.model_used,
   tokens_input |-> r.tokens_input, tokens_output |-> r.tokens_output,
   escalated |-> r.escalated, escalation_reason |-> r.escalation_reason,
   interaction_id |-> interaction_id, error |-> error]

NoResult == ProcessedEmailResponse(FALSE, NoAgentResponse, "None", "None", "None", "None")

\* str(e) of the exceptions the model raises.
ExceptionText(exc) ==
  CASE exc = "InvalidEmail" -> "Invalid email address"
    [] exc = "ValueError" -> "value is not a valid enumeration member"
    [] exc = "AttributeError" -> "list object has no attribute get"
    [] exc = "TypeError" -> "execute() missing required argument"
    [] exc = "BackendError" -> "Connection error."
    [] exc = "CommitError" -> "commit failed"

\* email_processor.py 104-138: the two except clauses of process.
ProcessFailure(exc) ==
  ProcessedEmailResponse(
    FALSE,
    AgentResponse("", NoClassification, <<>>, <<>>, "none", 0, 0, FALSE, "None"),
    "unknown", "unknown", "",
    IF exc \in {"InvalidEmail", "ValueError"}
    THEN ExceptionText(exc)
    ELSE "Processing error: " \o ExceptionText(exc))

\* A variant of Fail that stays where the exception rose.
Fail_and_stay(exc, at) ==
  /\ raised' = [exc |-> exc, at |-> at]
  /\ result' = ProcessFailure(exc)
  /\ pc' = pc

\* An exception leaves process_email (or parse, or _log_interaction) and is
\* caught by process.
Fail(exc, at) ==
  /\ raised' = [exc |-> exc, at |-> at]
  /\ result' = ProcessFailure(exc)
  /\ pc' = "done"

\* A run of process_email among concurrent ones: c is where the coroutine
\* stands (with the responses the backend will give it, and those it has
\* taken), d its locals of core.py 105-107, 144 and 158-159.
NoLocals ==
  [messages |-> <<>>, tools_used |-> <<>>, tool_results |-> <<>>,
   total_input_tokens |-> 0, total_output_tokens |-> 0]

IdleRun ==
  [c |-> [pc |-> "idle", script |-> <<>>, taken |-> <<>>, steps |-> 0,
          pending |-> <<>>, iteration |-> 0, exit |-> "None"],
   d |-> NoLocals]

Init ==
  /\ pc = "start"
  /\ sender_email = <<>>
  /\ classification = NoClassification
  /\ model_config = NoModelConfig
  /\ messages = <<>>
  /\ tools_used = <<>>
  /\ tool_results = <<>>
  /\ total_input_tokens = 0
  /\ total_output_tokens = 0
  /\ iteration = 0
  /\ pending = <<>>
  /\ agent_response = NoAgentResponse
  /\ result = NoResult
  /\ escalations = <<>>
  /\ interaction_logs = 0
  /\ classify_calls = 0
  /\ loop_calls = 0
  /\ exit = "None"
  /\ raised = [exc |-> "None", at |-> "None"]
  /\ content = <<>>
  /\ observed = {}
  /\ calls = <<>>
  /\ registry = {}
  /\ runs = [id \in 1..MaxRuns |-> IdleRun]
  /\ loop_log = <<>>


(***************************************************************************)
(* EmailProcessorService.process and SupportAgent.process_email.           *)
(***************************************************************************)
\* email_processor.py 66-73 with parser.py 113-119.
Parse ==
  /\ pc = "start"
  /\ \E from_email \in FromEmails :
       LET email_address == extract_email_address(from_email)
       IN /\ sender_email' = email_address
          /\ IF validate_email(email_address)
             THEN /\ pc' = "classify"
                  /\ UNCHANGED <<result, raised>>
             ELSE Fail("InvalidEmail", "parse")
  /\ UNCHANGED <<aside, observed, content, classification, model_config, messages,
                 tools_used, tool_results, total_input_tokens, total_output_tokens,
                 iteration, pending, agent_response, escalations, interaction_logs,
                 classify_calls, loop_calls, exit>>

\* core.py 110-114 with classifier.py 116-160: one chat_completion call, which
\* fails or answers one of texts.
classify(texts) ==
  /\ pc = "classify"
  /\ classify_calls' = classify_calls + 1
  /\ \/ /\ Fail("BackendError", "classify")
        /\ UNCHANGED <<classification, content>>
     \/ \E text \in texts :
          LET r == ParseClassification(text)
          IN /\ content' = text
             /\ IF r.raised = "None"
                THEN /\ classification' = r.value
                     /\ pc' = "check"
                     /\ UNCHANGED <<result, raised>>
                ELSE /\ Fail(r.raised, "classify")
                     /\ UNCHANGED classification
  /\ UNCHANGED <<aside, observed, sender_email, model_config, messages, tools_used,
                 tool_results,
                 total_input_tokens, total_output_tokens, iteration, pending,
                 agent_response, escalations, interaction_logs, loop_calls, exit>>

\* core.py 117: the branch on should_escalate.
CheckEscalation ==
  /\ pc = "check"
  /\ pc' = IF should_escalate(classification) THEN "escalate" ELSE "route"
  /\ UNCHANGED <<aside, observed, content, sender_email, classification, model_config,
                 messages, tools_used,
                 tool_results, total_input_tokens, total_output_tokens, iteration,
                 pending, agent_response, result, escalations, interaction_logs,
                 classify_calls, loop_calls, exit, raised>>

\* An Escalation row as escalation.py 87-96 creates it.
PendingEscalation ==
  [status |-> "pending", assigned_to |-> "None", resolved_at |-> "None"]

\* core.py 277-284: the data of a successful escalation, or a bare message.
ImmediateEscalationResult(r) ==
  IF r.success THEN r.data
  ELSE [kind |-> "message",
        message |-> "Your request has been escalated to our support team."]

\* A variant of handle_immediate_escalation that goes on to the router
\* instead of returning.
handle_immediate_escalation_no_return ==
  /\ pc = "escalate"
  /\ \E fault \in BOOLEAN :
       LET priority == IF classification.intent = "complaint" THEN "high" ELSE "medium"
           r == EscalateToHumanTool_execute(priority, fault)
           escalation_result == ImmediateEscalationResult(r)
       IN /\ escalations' = IF r.success THEN Append(escalations, PendingEscalation)
                            ELSE escalations
          /\ agent_response' =
               AgentResponse(escalation_result.message, classification,
                             <<"escalate_to_human">>, <<escalation_result>>, "none",
                             0, 0, TRUE, classification.reasoning)
  /\ exit' = "ESCALATED_IMMEDIATE"
  /\ pc' = "route"
  /\ UNCHANGED <<aside, observed, content, sender_email, classification, model_config,
                 messages, tools_used, tool_results, total_input_tokens,
                 total_output_tokens, iteration, pending, result, interaction_logs,
                 classify_calls, loop_calls, raised>>

\* core.py 118-135 with _handle_immediate_escalation (259-284).
handle_immediate_escalation ==
  /\ pc = "escalate"
  /\ \E fault \in BOOLEAN :
       LET priority == IF classification.intent = "complaint" THEN "high" ELSE "medium"
           r == EscalateToHumanTool_execute(priority, fault)
           escalation_result == ImmediateEscalationResult(r)
       IN /\ escalations' = IF r.success THEN Append(escalations, PendingEscalation)
                            ELSE escalations
          /\ agent_response' =
               AgentResponse(escalation_result.message, classification,
                             <<"escalate_to_human">>, <<escalation_result>>, "none",
                             0, 0, TRUE, classification.reasoning)
  /\ exit' = "ESCALATED_IMMEDIATE"
  /\ pc' = "log"
  /\ UNCHANGED <<aside, observed, content, sender_email, classification, model_config,
                 messages, tools_used,
                 tool_results, total_input_tokens, total_output_tokens, iteration,
                 pending, result, interaction_logs, classify_calls, loop_calls, raised>>

\* core.py 138-160: the router, the first two messages, the counters.
route ==
  /\ pc = "route"
  /\ model_config' = get_model_config(classification.complexity, classification.intent)
  /\ messages' = << [role |-> "system", content |-> "agent system prompt"],
                    [role |-> "user", content |-> "email context"] >>
  /\ total_input_tokens' = 0
  /\ total_output_tokens' = 0
  /\ iteration' = 0
  /\ pc' = "converse"
  /\ loop_log' = <<>>
  /\ UNCHANGED <<components, observed, content, sender_email, classification, tools_used,
                 tool_results, pending,
                 agent_response, result, escalations, interaction_logs,
                 classify_calls, loop_calls, exit, raised>>

\* A variant of AssistantMessage that records the first request only.
AssistantMessage_first_call(tool_calls) ==
  [role |-> "assistant", content |-> "",
   tool_calls |-> << [id |-> tool_calls[1].id, name |-> tool_calls[1].name] >>]

\* core.py 182-196: the assistant message that records the requests.
AssistantMessage(tool_calls) ==
  [role |-> "assistant", content |-> "",
   tool_calls |-> [i \in 1..Len(tool_calls) |->
                     [id |-> tool_calls[i].id, name |-> tool_calls[i].name]]]

\* core.py 164-170: a call of the loop, by the configuration whose model,
\* temperature and max_tokens it was sent, whether it returned, and the
\* usage of its response.
BackendCall(config, returned, usage) ==
  [config |-> config, returned |-> returned, usage |-> usage]

\* A variant of track_usage that keeps the count of the last call.
track_usage_last(total, present, count) == IF present THEN count ELSE total

\* core.py 173-175: if response.usage: total += count.
track_usage(total, present, count) == IF present THEN total + count ELSE total

\* core.py 162-196 and 237-240: one pass of the for loop up to the tool
\* calls; the call fails, answers a final text, or asks for tools.
chat_completion(usages, requests) ==
  /\ pc = "converse"
  /\ iteration < max_iterations
  /\ loop_calls' = loop_calls + 1
  /\ \/ /\ Fail("BackendError", "chat_completion")
        /\ loop_log' = Append(loop_log, BackendCall(model_config, FALSE, NoUsage))
        /\ UNCHANGED <<messages, total_input_tokens, total_output_tokens, pending,
                       agent_response, exit>>
     \/ \E response \in ChatResponses(Len(tools_used), usages, requests) :
          LET tin == track_usage(total_input_tokens, response.usage.present,
                                 response.usage.prompt_tokens)
              tout == track_usage(total_output_tokens, response.usage.present,
                                  response.usage.completion_tokens)
          IN /\ total_input_tokens' = tin
             /\ total_output_tokens' = tout
             /\ loop_log' = Append(loop_log,
                                   BackendCall(model_config, TRUE, response.usage))
             /\ IF Len(response.tool_calls) > 0
                THEN /\ messages' = Append(messages, AssistantMessage(response.tool_calls))
                     /\ pending' = response.tool_calls
                     /\ pc' = "tools"
                     /\ UNCHANGED <<agent_response, exit>>
                ELSE /\ agent_response' =
                          AgentResponse(
                            IF response.content \in {"None", ""}
                            THEN "I apologize, I was unable to generate a response."
                            ELSE response.content,
                            classification, tools_used, tool_results, model_config.model,
                            tin, tout, FALSE, "None")
                     /\ exit' = "FINALIZED"
                     /\ pc' = "log"
                     /\ UNCHANGED <<messages, pending>>
             /\ UNCHANGED <<result, raised>>
  /\ UNCHANGED <<components, observed, content, sender_email, classification,
                 model_config, tools_used, tool_results,
                 iteration, escalations, interaction_logs, classify_calls>>

\* core.py 243-246: the message of the else clause of the for loop.
ExhaustedMessage ==
  "I apologize, but I'm having difficulty processing your request. Your inquiry has been forwarded to our support team for assistance."

\* A variant of exhausted that sets the escalated flag.
exhausted_escalated ==
  /\ pc = "converse"
  /\ iteration >= max_iterations
  /\ agent_response' =
       AgentResponse(ExhaustedMessage, classification, tools_used, tool_results,
                     model_config.model, total_input_tokens, total_output_tokens,
                     TRUE, "None")
  /\ exit' = "EXHAUSTED"
  /\ pc' = "log"
  /\ UNCHANGED <<aside, observed, content, sender_email, classification, model_config,
                 messages, tools_used, tool_results, total_input_tokens,
                 total_output_tokens, iteration, pending, result, escalations,
                 interaction_logs, classify_calls, loop_calls, raised>>

\* core.py 241-257: the return after the loop.
exhausted ==
  /\ pc = "converse"
  /\ iteration >= max_iterations
  /\ agent_response' =
       AgentResponse(ExhaustedMessage, classification, tools_used, tool_results,
                     model_config.model, total_input_tokens, total_output_tokens,
                     FALSE, "None")
  /\ exit' = "EXHAUSTED"
  /\ pc' = "log"
  /\ UNCHANGED <<aside, observed, content, sender_email, classification, model_config,
                 messages, tools_used,
                 tool_results, total_input_tokens, total_output_tokens, iteration,
                 pending, result, escalations, interaction_logs, classify_calls,
                 loop_calls, raised>>

\* A variant of IsEscalation that ignores the result.
IsEscalation_any_result(tool_name, res) == tool_name = "escalate_to_human"

\* core.py 217: the test that ends the run inside the loop.
IsEscalation(tool_name, res) == tool_name = "escalate_to_human" /\ res.success

\* A variant of list_append that puts the entry first.
list_insert_first(list, entry) == <<entry>> \o list

\* list.append (core.py 201, 210).
list_append(list, entry) == Append(list, entry)

\* core.py 199-236: one pass of the inner for loop.
execute_tool_call(provider_faults) ==
  /\ pc = "tools"
  /\ Len(pending) > 0
  /\ \E fault \in (IF Head(pending).name = "escalate_to_human"
                   THEN BOOLEAN ELSE provider_faults) :
       LET tool_call == Head(pending)
           tool_name == tool_call.name
           tool_args == ParseToolArguments(tool_call.arguments)
           d == ToolRegistry_execute(tool_name, tool_args, fault)
           res == d.result
           results == list_append(tool_results,
                                  [tool |-> tool_name, args |-> tool_args.keys,
                                   result |-> to_dict(res)])
       IN /\ tools_used' = list_append(tools_used, tool_name)
          /\ IF d.raised # "None"
             THEN /\ Fail(d.raised, "execute")
                  /\ UNCHANGED <<tool_results, messages, pending, iteration,
                                 agent_response, escalations, exit>>
             ELSE /\ tool_results' = results
                  /\ escalations' =
                       IF tool_name = "escalate_to_human" /\ res.success
                       THEN Append(escalations, PendingEscalation)
                       ELSE escalations
                  /\ pending' = Tail(pending)
                  /\ IF IsEscalation(tool_name, res)
                     THEN /\ agent_response' =
                               AgentResponse(IF res.success THEN res.data.message
                                             ELSE "Escalated to human agent.",
                                             classification,
                                             list_append(tools_used, tool_name),
                                             results,
                                             model_config.model, total_input_tokens,
                                             total_output_tokens, TRUE,
                                             "args.reason")
                          /\ exit' = "ESCALATED_VIA_TOOL"
                          /\ pc' = "log"
                          /\ UNCHANGED <<messages, iteration>>
                     ELSE /\ messages' =
                               Append(messages,
                                      [role |-> "tool", tool_call_id |-> tool_call.id,
                                       content |-> to_dict(res)])
                          /\ iteration' = IF Len(pending) = 1 THEN iteration + 1
                                          ELSE iteration
                          /\ pc' = IF Len(pending) = 1 THEN "converse" ELSE "tools"
                          /\ UNCHANGED <<agent_response, exit>>
                  /\ UNCHANGED <<result, raised>>
  /\ UNCHANGED <<aside, observed, content, sender_email, classification, model_config,
                 total_input_tokens,
                 total_output_tokens, interaction_logs, classify_calls, loop_calls>>

\* email_processor.py 84-102 with _log_interaction (140-173): the commit
\* succeeds, or raises.
log_interaction ==
  /\ pc = "log"
  /\ \/ /\ interaction_logs' = interaction_logs + 1
        /\ result' = ProcessedEmailResponse(TRUE, agent_response,
                                            agent_response.classification.intent,
                                            agent_response.classification.complexity,
                                            "interaction id", "None")
        /\ pc' = "done"
        /\ UNCHANGED raised
     \/ /\ Fail("CommitError", "log")
        /\ UNCHANGED interaction_logs
  /\ UNCHANGED <<aside, observed, content, sender_email, classification, model_config,
                 messages, tools_used,
                 tool_results, total_input_tokens, total_output_tokens, iteration,
                 pending, agent_response, escalations, classify_calls, loop_calls,
                 exit>>

classify_loop == classify(LoopClassifierTexts)
chat_completion_loop == chat_completion(LoopUsages, ToolCallRequests)
execute_tool_call_loop == execute_tool_call(LoopProviderFaults)

Next ==
  \/ Parse
  \/ classify_loop
  \/ CheckEscalation
  \/ handle_immediate_escalation
  \/ route
  \/ chat_completion_loop
  \/ exhausted
  \/ execute_tool_call_loop
  \/ log_interaction

Spec == Init /\ [][Next]_vars

\* The run up to the tool-calling loop, on every text of ClassifierTexts.
classify_any == classify(ClassifierTexts)

NextClassifier ==
  \/ Parse
  \/ classify_any
  \/ CheckEscalation
  \/ handle_immediate_escalation
  \/ route

SpecClassifier == Init /\ [][NextClassifier]_vars


(***************************************************************************)
(* The caller of process: one request after the other (api/routes/email.py *)
(* 67-75), each with its own service, agent, session and locals.           *)
(***************************************************************************)
\* Which of the five outcomes a finished run is.
Outcome ==
  IF ~result.success THEN "explicit failure"
  ELSE CASE exit = "FINALIZED" -> "normal answer"
         [] exit = "ESCALATED_IMMEDIATE" -> "immediate escalation"
         [] exit = "ESCALATED_VIA_TOOL" -> "tool-triggered escalation"
         [] exit = "EXHAUSTED" -> "exhaustion fallback"
         [] OTHER -> "none"

\* What the caller sees of the response: the escalated flag, success, and
\* whether an error text is present.
Triple(r) ==
  [escalated |-> r.escalated, success |-> r.success,
   error_present |-> r.error \notin {"None", ""}]

\* The caller takes the response and sends the next email.
next_email ==
  /\ pc = "done"
  /\ observed' = observed \cup {[triple |-> Triple(result), outcome |-> Outcome]}
  /\ pc' = "start"
  /\ sender_email' = <<>>
  /\ classification' = NoClassification
  /\ model_config' = NoModelConfig
  /\ messages' = <<>>
  /\ tools_used' = <<>>
  /\ tool_results' = <<>>
  /\ total_input_tokens' = 0
  /\ total_output_tokens' = 0
  /\ iteration' = 0
  /\ pending' = <<>>
  /\ agent_response' = NoAgentResponse
  /\ result' = NoResult
  /\ escalations' = <<>>
  /\ interaction_logs' = 0
  /\ classify_calls' = 0
  /\ loop_calls' = 0
  /\ exit' = "None"
  /\ raised' = [exc |-> "None", at |-> "None"]
  /\ content' = <<>>
  /\ loop_log' = <<>>
  /\ UNCHANGED components

\* The answers tried when the outcomes of several emails are compared: a
\* classification that reaches the loop, one that escalates at once, one
\* that classify rejects; in the loop the backend asks for escalations only.
OutcomeClassifierTexts ==
  { <<JsonObject("order_status", "simple", "number", 100)>>,
    <<JsonObject("escalation_request", "simple", "number", 100)>>,
    <<JsonObject("billing_dispute", "simple", "number", 100)>> }

OutcomeRequests ==
  { [name |-> "escalate_to_human",
     arguments |-> <<ArgsObject(RequiredParameters("escalate_to_human"))>>] }

classify_outcomes == classify(OutcomeClassifierTexts)
chat_completion_outcomes == chat_completion(LoopUsages, OutcomeRequests)

NextOutcomes ==
  \/ Parse
  \/ classify_outcomes
  \/ CheckEscalation
  \/ handle_immediate_escalation
  \/ route
  \/ chat_completion_outcomes
  \/ exhausted
  \/ execute_tool_call_loop
  \/ log_interaction
  \/ next_email

SpecOutcomes == Init /\ [][NextOutcomes]_vars


(***************************************************************************)
(* Components taken alone: each call is recorded with its result.          *)
(***************************************************************************)
\* What a call on a component leaves alone: the run of process.
run ==
  <<pc, sender_email, classification, model_config, messages, tools_used,
    tool_results, total_input_tokens, total_output_tokens, iteration, pending,
    agent_response, result, escalations, interaction_logs, classify_calls,
    loop_calls, exit, raised, content, observed, loop_log>>

\* router.py 55-76: a call of get_model_config, the intent given or None.
router_call ==
  /\ Len(calls) < MaxCalls
  /\ \E complexity \in Complexity, intent \in Intent \cup {"None"} :
       calls' = Append(calls, [complexity |-> complexity, intent |-> intent,
                               config |-> get_model_config(complexity, intent)])
  /\ UNCHANGED <<run, registry, runs>>

NextRouter == router_call

SpecRouter == Init /\ [][NextRouter]_vars

\* The keyword arguments a tool is called with: all it requires, all but
\* one of them, none.
KeywordSets(name) ==
  { RequiredParameters(name), {} }
  \cup { RequiredParameters(name) \ {k} : k \in RequiredParameters(name) }

\* A call of execute on one of the five tools, the provider or the session
\* failing or not.
tool_call ==
  /\ Len(calls) < MaxCalls
  /\ \E name \in RegisteredTools, fault \in BOOLEAN :
       \E keys \in KeywordSets(name) :
         calls' = Append(calls, [tool |-> name, keys |-> keys, fault |-> fault,
                                 outcome |-> Tool_execute(name, keys, fault)])
  /\ UNCHANGED <<run, registry, runs>>

NextTools == tool_call

SpecTools == Init /\ [][NextTools]_vars

\* A registry taken alone: the tools registered on it, the names asked of
\* it (one of them the name of no tool), the keyword arguments passed on.
RegistryTools == {"get_order", "escalate_to_human"}
RegistryNames == RegistryTools \cup {"track_package"}
RegistryKeywords(name) == { RequiredParameters(name), {}, {"name"} }

\* base.py 67-73.
register ==
  /\ \E name \in RegistryTools : registry' = registry \cup {name}
  /\ UNCHANGED <<run, calls, runs>>

\* base.py 102-115: a call of execute, recorded with the registry before and
\* after it and the tool it executed, if any.
registry_execute ==
  /\ Len(calls) < MaxCalls
  /\ \E name \in RegistryNames, fault \in BOOLEAN :
       \E keys \in RegistryKeywords(name) :
         LET outcome == ToolRegistry_execute_in(registry, name, ArgsObject(keys), fault)
         IN calls' = Append(calls,
                       [name |-> name, keys |-> keys, before |-> registry,
                        outcome |-> outcome,
                        executed |-> IF keys \cap OwnParameters = {} /\ name \in registry
                                     THEN name ELSE "None",
                        after |-> registry])
  /\ UNCHANGED <<run, registry, runs>>

NextRegistry == register \/ registry_execute

SpecRegistry == Init /\ [][NextRegistry]_vars

(***************************************************************************)
(* Concurrent runs of process_email, interleaved at their awaits (the      *)
(* model calls and the tool executions).  What the backend answers to a    *)
(* run is fixed when the run starts, so that the run can be compared with  *)
(* itself executed alone.                                                  *)
(***************************************************************************)
\* A response of the backend that asks for tools, and a final one.
ToolResponse(tool_calls, usage) ==
  [content |-> "None", tool_calls |-> tool_calls, usage |-> usage]
FinalResponse(text, usage) ==
  [content |-> text, tool_calls |-> <<>>, usage |-> usage]

\* A requested tool call, with whether the provider fails when it runs.
Request(id, name, arguments, fault) ==
  [id |-> id, name |-> name, arguments |-> arguments, fault |-> fault]

FullArguments(name) == <<ArgsObject(RequiredParameters(name))>>

\* The conversations tried: a lookup and an answer; an unknown tool and an
\* escalation in one batch; an answer at once; a lookup without arguments; a
\* failed escalation, then a backend that fails; five lookups in a row.
RunScripts ==
  { << ToolResponse(<<Request(1, "get_order", FullArguments("get_order"), FALSE)>>,
                    Usage(2, 1)),
       FinalResponse("Your order has shipped.", Usage(2, 1)) >>,
    << ToolResponse(<<Request(1, "track_package", <<Prose>>, FALSE),
                      Request(2, "escalate_to_human",
                              FullArguments("escalate_to_human"), FALSE)>>,
                    Usage(3, 2)) >>,
    << FinalResponse("None", NoUsage) >>,
    << ToolResponse(<<Request(1, "get_order", <<ArgsObject({})>>, FALSE)>>,
                    Usage(2, 1)) >>,
    << ToolResponse(<<Request(1, "escalate_to_human",
                              FullArguments("escalate_to_human"), TRUE)>>,
                    Usage(3, 2)) >>,
    [i \in 1..max_iterations |->
       ToolResponse(<<Request(i, "get_order", FullArguments("get_order"), FALSE)>>,
                    Usage(1, 1))] }

\* core.py 105-107, 144-160: the locals of a call of process_email.
StartRun(script) ==
  [c |-> [pc |-> "converse", script |-> script, taken |-> <<>>, steps |-> 0,
          pending |-> <<>>, iteration |-> 0, exit |-> "None"],
   d |-> [messages |-> << [role |-> "system", content |-> "agent system prompt"],
                          [role |-> "user", content |-> "email context"] >>,
          tools_used |-> <<>>, tool_results |-> <<>>,
          total_input_tokens |-> 0, total_output_tokens |-> 0]]

\* core.py 162-196, 237-246: a pass of the loop up to its tool calls, by a
\* run standing at c with the locals d.
ConverseStep(c, d) ==
  IF c.iteration >= max_iterations
  THEN [c |-> [c EXCEPT !.pc = "done", !.exit = "EXHAUSTED", !.steps = @ + 1], d |-> d]
  ELSE IF c.script = <<>>
  THEN [c |-> [c EXCEPT !.pc = "done", !.exit = "FAILED", !.steps = @ + 1], d |-> d]
  ELSE
    LET response == Head(c.script)
        counted == [d EXCEPT
                      !.total_input_tokens =
                         IF response.usage.present
                         THEN @ + response.usage.prompt_tokens ELSE @,
                      !.total_output_tokens =
                         IF response.usage.present
                         THEN @ + response.usage.completion_tokens ELSE @]
        taken == [c EXCEPT !.script = Tail(@), !.taken = Append(@, response),
                           !.steps = @ + 1]
    IN IF Len(response.tool_calls) > 0
       THEN [c |-> [taken EXCEPT !.pc = "tools", !.pending = response.tool_calls],
             d |-> [counted EXCEPT
                      !.messages = Append(@, AssistantMessage(response.tool_calls))]]
       ELSE [c |-> [taken EXCEPT !.pc = "done", !.exit = "FINALIZED"], d |-> counted]

\* core.py 199-236: the execution of the next tool call of the batch.
ToolStep(c, d) ==
  LET requested == Head(c.pending)
      tool_args == ParseToolArguments(requested.arguments)
      x == ToolRegistry_execute(requested.name, tool_args, requested.fault)
      named == [d EXCEPT !.tools_used = Append(@, requested.name)]
      recorded == [named EXCEPT
                     !.tool_results =
                        Append(@, [tool |-> requested.name, args |-> tool_args.keys,
                                   result |-> to_dict(x.result)])]
      stepped == [c EXCEPT !.steps = @ + 1]
  IN IF x.raised # "None"
     THEN [c |-> [stepped EXCEPT !.pc = "done", !.exit = "FAILED"], d |-> named]
     ELSE IF IsEscalation(requested.name, x.result)
     THEN [c |-> [stepped EXCEPT !.pc = "done", !.exit = "ESCALATED_VIA_TOOL",
                                 !.pending = Tail(@)],
           d |-> recorded]
     ELSE [c |-> [stepped EXCEPT
                    !.pending = Tail(@),
                    !.iteration = IF Len(c.pending) = 1 THEN @ + 1 ELSE @,
                    !.pc = IF Len(c.pending) = 1 THEN "converse" ELSE "tools"],
           d |-> [recorded EXCEPT
                    !.messages = Append(@, [role |-> "tool",
                                            tool_call_id |-> requested.id,
                                            content |-> to_dict(x.result)])]]

StepRun(c, d) == IF c.pc = "converse" THEN ConverseStep(c, d) ELSE ToolStep(c, d)

\* A variant of frame: the locals kept in one place for all runs.
frame_of_agent(id) == 1

\* core.py 105-107: tools_used, tool_results, messages and the token totals
\* are locals of the call; each run reads and writes its own.
frame(id) == id

\* A request arrives: a call of process_email begins.
start_run ==
  /\ \E id \in DOMAIN runs, script \in RunScripts :
       /\ runs[id].c.pc = "idle"
       /\ LET n == StartRun(script)
          IN runs' = [[runs EXCEPT ![id].c = n.c] EXCEPT ![frame(id)].d = n.d]
  /\ UNCHANGED <<run, calls, registry>>

\* One of the runs is resumed and goes up to its next await.
resume_run ==
  /\ \E id \in DOMAIN runs :
       /\ runs[id].c.pc \in {"converse", "tools"}
       /\ LET n == StepRun(runs[id].c, runs[frame(id)].d)
          IN runs' = [[runs EXCEPT ![id].c = n.c] EXCEPT ![frame(id)].d = n.d]
  /\ UNCHANGED <<run, calls, registry>>

NextConcurrent == start_run \/ resume_run

SpecConcurrent == Init /\ [][NextConcurrent]_vars

(***************************************************************************)
(* The order provider taken alone.  A string is the sequence of its        *)
(* characters.                                                             *)
(***************************************************************************)
\* The characters order numbers are written with here: the sign, a blank, a
\* digit.
Chars == {"#", " ", "1"}

\* What str.strip() removes when called without argument.
Whitespace == {" "}

RECURSIVE lstrip(_, _)
\* str.lstrip(chars): the leading characters that are in chars are removed.
lstrip(s, chars) ==
  IF s # <<>> /\ Head(s) \in chars THEN lstrip(Tail(s), chars) ELSE s

RECURSIVE rstrip(_, _)
\* The same at the end of the string.
rstrip(s, chars) ==
  IF s # <<>> /\ s[Len(s)] \in chars
  THEN rstrip(SubSeq(s, 1, Len(s) - 1), chars)
  ELSE s

\* str.strip(): whitespace removed at both ends.
strip(s) == rstrip(lstrip(s, Whitespace), Whitespace)

\* order_number.lstrip("#").strip()
normalize_order_number(order_number) == strip(lstrip(order_number, {"#"}))

\* The value of the key fulfillment of an order: a dictionary, an empty
\* dictionary, or None (the key may be missing: order_data.get).
NoFulfillment == [kind |-> "None"]
EmptyFulfillment == [kind |-> "empty"]
FulfillmentData(status, tracking_number) ==
  [kind |-> "dict", status |-> status, tracking_number |-> tracking_number]

\* The orders of the data file, by id, order number as written there,
\* status and fulfillment: one shipped, one not yet, one with an empty
\* fulfillment.
orders ==
  << [id |-> "ORD-1", order_number |-> <<"#", "1">>, status |-> "shipped",
      fulfillment |-> FulfillmentData("in_transit", "1Z999")],
     [id |-> "ORD-11", order_number |-> <<"#", "1", "1">>,
      status |-> "processing", fulfillment |-> NoFulfillment],
     [id |-> "ORD-111", order_number |-> <<"#", "1", "1", "1">>,
      status |-> "paid", fulfillment |-> EmptyFulfillment] >>

\* mock.py 80-99: the place in the file of the first order whose normalized
\* number is the normalized argument; 0 when there is none.
first_match(order_number) ==
  LET normalized == normalize_order_number(order_number)
      found == { i \in DOMAIN orders :
                   normalize_order_number(orders[i].order_number) = normalized }
  IN  IF found = {} THEN 0
      ELSE CHOOSE i \in found : \A j \in found : i <= j

\* get_order, by the id of the order it returns; "None" when there is none.
get_order(order_number) ==
  IF first_match(order_number) = 0 THEN "None"
  ELSE orders[first_match(order_number)].id

\* The order numbers asked for: every string of at most MaxLen characters.
OrderNumbers == UNION { [1..n -> Chars] : n \in 0..MaxLen }

\* A call of get_order.
get_order_call ==
  /\ Len(calls) < MaxCalls
  /\ \E order_number \in OrderNumbers :
       calls' = Append(calls,
                       [order_number |-> order_number,
                        normalized |-> normalize_order_number(order_number),
                        again |-> normalize_order_number(
                                    normalize_order_number(order_number)),
                        order |-> get_order(order_number)])
  /\ UNCHANGED <<run, registry, runs>>

NextOrders == get_order_call

SpecOrders == Init /\ [][NextOrders]_vars

(***************************************************************************)
(* The retrieval service taken alone.  Scores are hundredths.              *)
(***************************************************************************)
\* settings.rag_top_k
rag_top_k == 3

\* settings.rag_similarity_threshold (0.7)
rag_similarity_threshold == 70

\* The queries asked, and what a caller passes for category, threshold and
\* limit.  A number that may be left out is a list of at most one number:
\* <<>> when the argument is None.
Queries == {"where is my order", "return policy", "warranty"}
CategoryArguments == {"None", "faq", "policy"}
ThresholdArguments == {<<>>, <<70>>, <<90>>}
LimitArguments == {<<>>, <<1>>, <<2>>}

\* The rows of table knowledge_base: the category of each, whether it has an
\* embedding, and 1 - (embedding <=> query embedding) for each query.  Rows
\* 1 and 2 are as near to the second query as each other, rows 2 and 3 to
\* the first, and no row is near the third.
knowledge_base ==
  << [id |-> 1, category |-> "faq", embedded |-> TRUE,
      score |-> [q \in Queries |->
                   CASE q = "where is my order" -> 90
                     [] q = "return policy" -> 70
                     [] OTHER -> 60]],
     [id |-> 2, category |-> "faq", embedded |-> TRUE,
      score |-> [q \in Queries |-> IF q = "warranty" THEN 69 ELSE 70]],
     [id |-> 3, category |-> "policy", embedded |-> TRUE,
      score |-> [q \in Queries |->
                   CASE q = "where is my order" -> 70
                     [] q = "return policy" -> 40
                     [] OTHER -> 10]],
     [id |-> 4, category |-> "policy", embedded |-> FALSE,
      score |-> [q \in Queries |-> 0]] >>

\* The rows of a table the WHERE clause of the statement keeps.
Selected(table, category) ==
  { i \in DOMAIN table :
      /\ table[i].embedded
      /\ category # "None" => table[i].category = category }

\* RAGResult of a row for a query.
RAGResult(row, query) ==
  [id |-> row.id, category |-> row.category, score |-> row.score[query]]

\* search: the selected rows by increasing distance, that is by decreasing
\* score, cut at limit (rag_top_k when left out).  The statement says nothing
\* of rows at the same distance, so every order of them is a possible
\* output: the value is the set of the lists search can return.
search_in(table, query, category, limit) ==
  LET top == IF limit = <<>> THEN rag_top_k ELSE limit[1]
      rows == Selected(table, category)
      n == IF top < Cardinality(rows) THEN top ELSE Cardinality(rows)
      distance(i) == 100 - table[i].score[query]
  IN  { [k \in 1..n |-> RAGResult(table[picked[k]], query)] :
          picked \in { p \in [1..n -> rows] :
                         /\ \A a, b \in 1..n : a < b =>
                              /\ p[a] # p[b]
                              /\ distance(p[a]) <= distance(p[b])
                         /\ \A i \in rows \ { p[k] : k \in 1..n } :
                              \A k \in 1..n : distance(p[k]) <= distance(i) } }

\* search on the table above.
search(query, category, limit) == search_in(knowledge_base, query, category, limit)

\* The test of the comprehension: r.score >= threshold.
passes_strictly(score, threshold) == score > threshold

passes(score, threshold) == score >= threshold

RECURSIVE comprehension(_, _)
\* [r for r in results if r.score >= threshold]
comprehension(results, threshold) ==
  IF results = <<>> THEN <<>>
  ELSE (IF passes(Head(results).score, threshold)
        THEN <<Head(results)>> ELSE <<>>)
       \o comprehension(Tail(results), threshold)

\* search_with_threshold on what its call of search returned.
search_with_threshold(results, threshold) ==
  comprehension(results,
                IF threshold = <<>> THEN rag_similarity_threshold
                ELSE threshold[1])

\* A call of search_with_threshold: the call of search inside it returns one
\* of the lists it can return.
search_with_threshold_call ==
  /\ Len(calls) < MaxCalls
  /\ \E query \in Queries, category \in CategoryArguments,
        threshold \in ThresholdArguments, limit \in LimitArguments :
       \E results \in search(query, category, limit) :
         calls' = Append(calls,
                         [query |-> query, category |-> category,
                          threshold |-> threshold, limit |-> limit,
                          results |-> results,
                          output |-> search_with_threshold(results, threshold)])
  /\ UNCHANGED <<run, registry, runs>>

NextRetrieval == search_with_threshold_call

SpecRetrieval == Init /\ [][NextRetrieval]_vars

(***************************************************************************)
(* search_knowledge_base taken alone, on a table that has rows or none.    *)
(***************************************************************************)
\* knowledge_base.py 70-78: what is shown of each entry.
formatted_results(results) ==
  [k \in DOMAIN results |->
     [category |-> results[k].category, relevance_score |-> results[k].score]]

\* A variant of the tool that reports an empty result as a failure.
SearchKnowledgeBaseTool_execute_strict(results, fault) ==
  IF fault \/ results = <<>>
  THEN ToolResult(FALSE, NoData, "Knowledge base search failed: error")
  ELSE ToolResult(TRUE,
                  [kind |-> "search_knowledge_base",
                   results |-> formatted_results(results),
                   count |-> Len(results)],
                  "None")

\* knowledge_base.py 55-92: results is what search_with_threshold returned,
\* fault an exception of the embedding call or of the statement.
SearchKnowledgeBaseTool_execute(results, fault) ==
  IF fault
  THEN ToolResult(FALSE, NoData, "Knowledge base search failed: error")
  ELSE IF results = <<>>
  THEN ToolResult(TRUE,
                  [kind |-> "search_knowledge_base", results |-> <<>>,
                   message |-> "No relevant information found in knowledge base."],
                  "None")
  ELSE ToolResult(TRUE,
                  [kind |-> "search_knowledge_base",
                   results |-> formatted_results(results),
                   count |-> Len(results)],
                  "None")

\* The tables searched: the one above, and one without rows.
KnowledgeBases == { knowledge_base, <<>> }

\* A call of execute(query, category): threshold and limit are left to their
\* defaults (knowledge_base.py 56-59).
search_knowledge_base_call ==
  /\ Len(calls) < MaxCalls
  /\ \E table \in KnowledgeBases, query \in Queries,
        category \in CategoryArguments, fault \in BOOLEAN :
       \E results \in search_in(table, query, category, <<>>) :
         calls' = Append(calls,
                         [tool |-> "search_knowledge_base", table |-> table,
                          query |-> query, category |-> category,
                          fault |-> fault,
                          outcome |-> SearchKnowledgeBaseTool_execute(
                                        search_with_threshold(results, <<>>),
                                        fault)])
  /\ UNCHANGED <<run, registry, runs>>

NextKnowledgeBase == search_knowledge_base_call

SpecKnowledgeBase == Init /\ [][NextKnowledgeBase]_vars

(***************************************************************************)
(* get_fulfillment taken alone.                                            *)
(***************************************************************************)
\* bool(order.fulfillment): None and the empty dictionary are false.
truthy(fulfillment) == fulfillment.kind = "dict"

\* mock.py 129-151: the Fulfillment of the order, or None.
client_get_fulfillment(order_number) ==
  IF first_match(order_number) = 0 THEN NoFulfillment
  ELSE IF ~truthy(orders[first_match(order_number)].fulfillment) THEN NoFulfillment
  ELSE orders[first_match(order_number)].fulfillment

\* mock.py 213-230.
fulfillment_to_dict(fulfillment) ==
  [status |-> fulfillment.status, tracking_number |-> fulfillment.tracking_number]

\* A variant of the tool that asks for the shipment without looking for the
\* order first.
GetFulfillmentTool_execute_unchecked(order_number, fault) ==
  IF fault
  THEN ToolResult(FALSE, NoData, "Failed to retrieve fulfillment info: error")
  ELSE IF client_get_fulfillment(order_number) = NoFulfillment
  THEN ToolResult(TRUE,
                  [kind |-> "get_fulfillment", found |-> TRUE, fulfilled |-> FALSE,
                   order_status |-> "unknown",
                   message |-> "This order has not been shipped yet."],
                  "None")
  ELSE ToolResult(TRUE,
                  [kind |-> "get_fulfillment", found |-> TRUE, fulfilled |-> TRUE,
                   fulfillment |->
                     fulfillment_to_dict(client_get_fulfillment(order_number))],
                  "None")

\* shopify.py 108-148: fault is an exception of the client.
GetFulfillmentTool_execute(order_number, fault) ==
  IF fault
  THEN ToolResult(FALSE, NoData, "Failed to retrieve fulfillment info: error")
  ELSE IF get_order(order_number) = "None"
  THEN ToolResult(TRUE,
                  [kind |-> "get_fulfillment", found |-> FALSE,
                   message |-> "No order found with that number."],
                  "None")
  ELSE IF client_get_fulfillment(order_number) = NoFulfillment
  THEN ToolResult(TRUE,
                  [kind |-> "get_fulfillment", found |-> TRUE, fulfilled |-> FALSE,
                   order_status |-> orders[first_match(order_number)].status,
                   message |-> "This order has not been shipped yet."],
                  "None")
  ELSE ToolResult(TRUE,
                  [kind |-> "get_fulfillment", found |-> TRUE, fulfilled |-> TRUE,
                   fulfillment |->
                     fulfillment_to_dict(client_get_fulfillment(order_number))],
                  "None")

\* The order numbers the tool is asked about: those of the three orders,
\* with and without the sign, and numbers of no order.
FulfillmentOrderNumbers ==
  { <<"1">>, <<"#", "1">>, <<"1", "1">>, <<"#", "1", "1">>,
    <<"1", "1", "1">>, <<" ", "1", " ">>, <<"1", "1", "1", "1">>, <<>> }

\* A call of execute(order_number).
get_fulfillment_call ==
  /\ Len(calls) < MaxCalls
  /\ \E order_number \in FulfillmentOrderNumbers, fault \in BOOLEAN :
       calls' = Append(calls,
                       [tool |-> "get_fulfillment", order_number |-> order_number,
                        fault |-> fault,
                        outcome |-> GetFulfillmentTool_execute(order_number, fault)])
  /\ UNCHANGED <<run, registry, runs>>

NextFulfillment == get_fulfillment_call

SpecFulfillment == Init /\ [][NextFulfillment]_vars

(***************************************************************************)
(* The tool-calling loop with a backend that reports its usage or not.     *)
(***************************************************************************)
\* The classification answer that leads to the loop.
TokenClassifierTexts == { <<JsonObject("order_status", "simple", "number", 100)>> }

\* The usage of a response: none, or one of two counts.
TokenUsages == { NoUsage, Usage(2, 1), Usage(5, 3) }

\* The tool call asked for: the escalation, which the database may fail.
TokenRequests ==
  { [name |-> "escalate_to_human",
     arguments |-> <<ArgsObject(RequiredParameters("escalate_to_human"))>>] }

classify_tokens == classify(TokenClassifierTexts)
chat_completion_tokens == chat_completion(TokenUsages, TokenRequests)

NextTokens ==
  \/ Parse
  \/ classify_tokens
  \/ CheckEscalation
  \/ route
  \/ chat_completion_tokens
  \/ exhausted
  \/ execute_tool_call_loop
  \/ log_interaction

SpecTokens == Init /\ [][NextTokens]_vars

(***************************************************************************)
(* The tool-calling loop followed through its lists and its transcript.    *)
(***************************************************************************)
\* The tool calls asked for: a lookup, a tool that is not registered, the
\* escalation, and a lookup without its argument.
TranscriptRequests ==
  { [name |-> "get_order", arguments |-> <<ArgsObject({"order_number"})>>],
    [name |-> "track_package", arguments |-> <<Prose>>],
    [name |-> "escalate_to_human",
     arguments |-> <<ArgsObject(RequiredParameters("escalate_to_human"))>>],
    [name |-> "get_order", arguments |-> <<ArgsObject({})>>] }

chat_completion_transcript == chat_completion(LoopUsages, TranscriptRequests)

NextTranscript ==
  \/ Parse
  \/ classify_tokens
  \/ CheckEscalation
  \/ route
  \/ chat_completion_transcript
  \/ exhausted
  \/ execute_tool_call_loop
  \/ log_interaction

SpecTranscript == Init /\ [][NextTranscript]_vars

(***************************************************************************)
(* Runs of every intent and complexity, up to the return of process_email. *)
(***************************************************************************)
\* The classification answers: every intent with every complexity, sure.
RoutingClassifierTexts ==
  { <<JsonObject(i, c, "number", 100)>> : i \in Intent, c \in Complexity }

\* The tool call asked for in the loop: a lookup.
RoutingRequests ==
  { [name |-> "get_order", arguments |-> <<ArgsObject({"order_number"})>>] }

classify_routing == classify(RoutingClassifierTexts)
chat_completion_routing == chat_completion(LoopUsages, RoutingRequests)

NextRouting ==
  \/ Parse
  \/ classify_routing
  \/ CheckEscalation
  \/ handle_immediate_escalation
  \/ route
  \/ chat_completion_routing
  \/ exhausted
  \/ execute_tool_call_loop
  \/ log_interaction

SpecRouting == Init /\ [][NextRouting]_vars

(***************************************************************************)
(* Runs in which every call of the backend returns, taken to their end.    *)
(***************************************************************************)
\* The tool calls asked for: a lookup, the escalation, and a lookup without
\* its argument.
TerminationRequests ==
  { [name |-> "get_order", arguments |-> <<ArgsObject({"order_number"})>>],
    [name |-> "escalate_to_human",
     arguments |-> <<ArgsObject(RequiredParameters("escalate_to_human"))>>],
    [name |-> "get_order", arguments |-> <<ArgsObject({})>>] }

\* The calls of the backend that return a response.
classify_returns ==
  classify(OutcomeClassifierTexts) /\ raised'.exc # "BackendError"
chat_completion_returns ==
  chat_completion(LoopUsages, TerminationRequests) /\ raised'.exc # "BackendError"

NextTermination ==
  \/ Parse
  \/ classify_returns
  \/ CheckEscalation
  \/ handle_immediate_escalation
  \/ route
  \/ chat_completion_returns
  \/ exhausted
  \/ execute_tool_call_loop
  \/ log_interaction

\* A coroutine that can go on does go on: the event loop resumes it when its
\* call returns.
SpecTermination == Init /\ [][NextTermination]_vars /\ WF_vars(NextTermination)

(***************************************************************************)
(* The escalation queue: records created by escalate_to_human and updated  *)
(* through PATCH /escalations/{id}.                                        *)
(***************************************************************************)
\* EscalationUpdateRequest (admin.py 84-89): each field may be left out.
UpdateStatuses == {"None", "pending", "assigned", "resolved"}
UpdateAssignees == {"None", "agent@x.co"}

\* admin.py 306-315 on a record: the status, then the assignment, which
\* moves a pending record to assigned.  A time is "set" or "None".
apply_update(escalation, status, assigned_to) ==
  LET with_status ==
        IF status = "None" THEN escalation
        ELSE [escalation EXCEPT
                !.status = status,
                !.resolved_at = IF status = "resolved" THEN "set" ELSE @]
  IN IF assigned_to = "None" THEN with_status
     ELSE [with_status EXCEPT
             !.assigned_to = assigned_to,
             !.status = IF @ = "pending" THEN "assigned" ELSE @]

\* What the queue leaves alone: the run of process but for the table.
beside_escalations ==
  <<pc, sender_email, classification, model_config, messages, tools_used,
    tool_results, total_input_tokens, total_output_tokens, iteration, pending,
    agent_response, result, interaction_logs, classify_calls, loop_calls, exit,
    raised, content, observed, loop_log, components>>

\* escalation.py 86-99: a successful escalate_to_human adds a record.
create_escalation ==
  /\ Len(escalations) < MaxCalls
  /\ escalations' = Append(escalations, PendingEscalation)
  /\ UNCHANGED beside_escalations

\* admin.py 289-318: the record is looked up (404 when there is none),
\* updated, and committed; a commit that fails leaves the table as it was.
update_escalation ==
  /\ \E escalation_id \in 1..MaxCalls, status \in UpdateStatuses,
        assigned_to \in UpdateAssignees, committed \in BOOLEAN :
       escalations' =
         IF escalation_id \in DOMAIN escalations /\ committed
         THEN [escalations EXCEPT
                 ![escalation_id] = apply_update(@, status, assigned_to)]
         ELSE escalations
  /\ UNCHANGED beside_escalations

NextEscalations == create_escalation \/ update_escalation

SpecEscalations == Init /\ [][NextEscalations]_vars

(***************************************************************************)
(* Properties.                                                             *)
(***************************************************************************)
\* The escalation rule, written out on the fields of a classification
\* (confidences are hundredths).
EscalationRule(c) ==
  \/ c.intent = "escalation_request"
  \/ (c.intent = "complaint" /\ c.complexity = "complex")
  \/ c.confidence < 50

\* The assistant turns of the transcript: one per response that asked for
\* tools.
AssistantTurns == { i \in DOMAIN messages : messages[i].role = "assistant" }

\* C1: the tool-calling loop makes at most 5 model-backend calls in a run,
\* whatever the sizes of the batches of tool calls; with the one call of
\* classify a run makes at most 6.
C1_LoopCallsBounded ==
  /\ loop_calls <= 5
  /\ Cardinality(AssistantTurns) <= 5
  /\ classify_calls + loop_calls <= 6

\* C1 witness: a run that made all 5 calls of the loop, one of them answered
\* with a batch of two tool calls, and ran out of iterations.
C1_Witness ==
  /\ exit = "EXHAUSTED"
  /\ loop_calls = 5
  /\ Len(tools_used) = 6

\* C2 (as stated): no tool call aborts the run; every requested call that was
\* started has its ToolResult recorded, and every recorded result but a
\* final successful escalation is answered by a tool turn with the call's id.
C2_EveryToolCallAnswered ==
  /\ raised.at # "execute"
  /\ Len(tool_results) = Len(tools_used)
  /\ \A i \in DOMAIN tool_results :
       \/ i = Len(tool_results) /\ exit = "ESCALATED_VIA_TOOL"
       \/ \E k \in DOMAIN messages :
            /\ messages[k].role = "tool"
            /\ messages[k].tool_call_id = i
            /\ messages[k].content = tool_results[i].result

\* C3: a classification the escalation rule holds of never reaches the router
\* or the loop; the run makes no conversational call, and process_email
\* returns escalated = true, tools_used = [escalate_to_human] and 0 tokens.
C3_ImmediateEscalation ==
  (classification # NoClassification /\ EscalationRule(classification)) =>
    /\ loop_calls = 0
    /\ messages = <<>>
    /\ pc \in {"check", "escalate", "log", "done"}
    /\ pc \in {"log", "done"} =>
         /\ exit = "ESCALATED_IMMEDIATE"
         /\ agent_response.escalated
         /\ agent_response.tools_used = <<"escalate_to_human">>
         /\ agent_response.tokens_input = 0
         /\ agent_response.tokens_output = 0
    /\ (pc = "done" /\ result.success) =>
         /\ result.escalated
         /\ result.tools_used = <<"escalate_to_human">>
         /\ result.tokens_input = 0
         /\ result.tokens_output = 0

\* C3 witness: a complex complaint, answered by an immediate escalation.
C3_Witness ==
  /\ pc = "done"
  /\ result.success
  /\ result.escalated
  /\ classification.intent = "complaint"
  /\ classification.complexity = "complex"
  /\ classification.confidence >= 50
  /\ loop_calls = 0

\* C4: a step that executes escalate_to_human and records a ToolResult with
\* success = true returns at once with escalated = true, escalate_to_human
\* last in tools_used and no tool turn; nothing is executed and no backend
\* call is made after that return. A step that records a failed
\* escalate_to_human answers it with a tool turn and stays in the loop.
C4_EscalationStep ==
  LET n == Len(tool_results')
      executed == Len(tool_results') = Len(tool_results) + 1
      call == tool_results'[n]
  IN /\ (executed /\ call.tool = "escalate_to_human" /\ call.result.success) =>
          /\ exit' = "ESCALATED_VIA_TOOL"
          /\ pc' = "log"
          /\ agent_response'.escalated
          /\ agent_response'.tools_used = tools_used'
          /\ tools_used'[Len(tools_used')] = "escalate_to_human"
          /\ messages' = messages
     /\ (executed /\ call.tool = "escalate_to_human" /\ ~call.result.success) =>
          /\ exit' = "None"
          /\ messages' = Append(messages, [role |-> "tool", tool_call_id |-> n,
                                           content |-> call.result])
          /\ pending' = Tail(pending)
          /\ IF pending' = <<>>
             THEN pc' = "converse" /\ iteration' = iteration + 1
             ELSE pc' = "tools" /\ iteration' = iteration
     /\ exit = "ESCALATED_VIA_TOOL" =>
          /\ UNCHANGED <<tools_used, tool_results, messages, pending, loop_calls,
                         escalations, agent_response, exit>>
          /\ pc' \in {"log", "done"}

C4_EscalationShortCircuits == [][C4_EscalationStep]_vars

\* C4 witness: a run whose first escalate_to_human failed and was answered,
\* and whose later escalate_to_human succeeded with a call of its batch left
\* unexecuted.
C4_Witness ==
  /\ exit = "ESCALATED_VIA_TOOL"
  /\ pc = "done"
  /\ result.success
  /\ result.escalated
  /\ Len(pending) > 0
  /\ \E i \in 1..(Len(tool_results) - 1) :
       /\ tool_results[i].tool = "escalate_to_human"
       /\ ~tool_results[i].result.success

\* C5 (as stated): a run whose 5 responses all asked for tools, none of them
\* a successful escalation, ends in EXHAUSTED with the fallback message and
\* escalated = false.
C5_FiveToolResponsesExhaust ==
  ( /\ pc \in {"log", "done"}
    /\ loop_calls = 5
    /\ Cardinality(AssistantTurns) = 5
    /\ exit # "ESCALATED_VIA_TOOL" ) =>
    /\ exit = "EXHAUSTED"
    /\ agent_response.response_text = ExhaustedMessage
    /\ ~agent_response.escalated

\* C6 (as stated): once classify has been called, the run has exactly one
\* classify call and a Classification.
C6_ExactlyOneClassification ==
  (pc \notin {"start", "classify"} /\ raised.at # "parse") =>
    /\ classify_calls = 1
    /\ classification # NoClassification

\* C6 (amended): a run makes exactly one classify call, which either raises
\* or produces the run's only Classification (a run that returns a response
\* has one); a run that took the immediate-escalation path never enters the
\* loop, and a run that entered the loop never took that path.
C6_OneClassifyCallOnePath ==
  /\ classify_calls <= 1
  /\ (pc \notin {"start", "classify"} /\ raised.at # "parse") => classify_calls = 1
  /\ classification # NoClassification => (classify_calls = 1 /\ raised.at # "classify")
  /\ (pc \in {"check", "escalate", "route", "converse", "tools", "log"} \/ exit # "None")
       => classification # NoClassification
  /\ (pc = "escalate" \/ exit = "ESCALATED_IMMEDIATE") =>
       /\ loop_calls = 0
       /\ messages = <<>>
       /\ tools_used = <<>>
       /\ pc \notin {"route", "converse", "tools"}
  /\ (pc \in {"route", "converse", "tools"} \/ loop_calls > 0 \/ messages # <<>>) =>
       /\ exit # "ESCALATED_IMMEDIATE"
       /\ pc # "escalate"

\* C6 witness: both kinds of run happen, here one that entered the loop after
\* its single classification and returned a final answer.
C6_Witness ==
  /\ pc = "done"
  /\ result.success
  /\ exit = "FINALIZED"
  /\ classify_calls = 1
  /\ loop_calls > 1

\* The five outcomes, and the three classes the response fields tell apart.
Outcomes ==
  {"normal answer", "immediate escalation", "tool-triggered escalation",
   "exhaustion fallback", "explicit failure"}

OutcomeClass(o) ==
  CASE o \in {"normal answer", "exhaustion fallback"} -> "answered"
    [] o \in {"immediate escalation", "tool-triggered escalation"} -> "escalated"
    [] OTHER -> "failed"

\* C7 (as stated): every finished run is one of the five outcomes, and no
\* two emails with different outcomes were answered with the same values of
\* (escalated, success, error present).
C7_OutcomesDistinguishable ==
  /\ pc = "done" => Outcome \in Outcomes
  /\ \A a, b \in observed : a.triple = b.triple => a.outcome = b.outcome

\* C7 (amended): every finished run is exactly one of the five outcomes, with
\* a response text and no error unless it is the failure, which has an error
\* text; (escalated, success, error present) tells apart answered, escalated
\* and failed runs, and nothing finer.
C7_OutcomeClassesDistinguishable ==
  /\ pc = "done" =>
       /\ Outcome \in Outcomes
       /\ Triple(result) =
            CASE OutcomeClass(Outcome) = "answered" ->
                   [escalated |-> FALSE, success |-> TRUE, error_present |-> FALSE]
              [] OutcomeClass(Outcome) = "escalated" ->
                   [escalated |-> TRUE, success |-> TRUE, error_present |-> FALSE]
              [] OTHER ->
                   [escalated |-> FALSE, success |-> FALSE, error_present |-> TRUE]
       /\ result.success <=> result.response_text \notin {"None", ""}
  /\ \A a, b \in observed :
       a.triple = b.triple <=> OutcomeClass(a.outcome) = OutcomeClass(b.outcome)

\* C7 witness: the caller has seen all five outcomes, and a normal answer
\* and an exhaustion fallback with the same three values.
C7_Witness ==
  /\ { o.outcome : o \in observed } = Outcomes
  /\ \E a, b \in observed :
       /\ a.outcome = "normal answer"
       /\ b.outcome = "exhaustion fallback"
       /\ a.triple = b.triple

\* C8: on every classification classify returns, the branch taken on
\* should_escalate is the escalation path exactly when the intent is
\* escalation_request, or a complaint is complex, or the confidence is below
\* 0.5; the test changes nothing.
C8_ShouldEscalateIff ==
  /\ classification # NoClassification =>
       (should_escalate(classification) <=> EscalationRule(classification))
  /\ pc = "escalate" => EscalationRule(classification)
  /\ pc \in {"route", "converse"} => ~EscalationRule(classification)

\* C8 witness: a complaint that is not complex, of confidence exactly 0.5, is
\* not escalated.
C8_Witness ==
  /\ pc = "route"
  /\ classification.intent = "complaint"
  /\ classification.complexity = "medium"
  /\ classification.confidence = 50

\* C9 (as stated): whatever text the backend answers, classify returns, and
\* returns an enumerated intent and complexity.
C9_AlwaysValidEnum ==
  (classify_calls = 1 /\ raised.exc # "BackendError") =>
    /\ raised.at # "classify"
    /\ classification.intent \in Intent
    /\ classification.complexity \in Complexity

\* C10: when the text is no JSON, fenced or not, classify does not raise and
\* returns general_inquiry, medium, 0.5, requires_knowledge_base = true and
\* suggested_tools = [search_knowledge_base].
C10_UnparseableGivesDefault ==
  (classify_calls = 1 /\ raised.exc # "BackendError" /\ content \in UnparseableTexts) =>
    /\ raised.at # "classify"
    /\ classification.intent = "general_inquiry"
    /\ classification.complexity = "medium"
    /\ classification.confidence = 50
    /\ classification.requires_knowledge_base
    /\ classification.suggested_tools = <<"search_knowledge_base">>

\* C10 witness: a fenced text that is no JSON was classified by default and
\* went on to the router.
C10_Witness ==
  /\ pc = "route"
  /\ content = <<Fence, JsonWord, Ws, Prose, Ws, Fence>>
  /\ classification.intent = "general_inquiry"
  /\ classification.confidence = 50

\* C11: every call of get_model_config returns the configuration of a tier
\* ranked at least as high as the requested complexity: the complex tier for
\* complaint, refund_request and escalation_request, the requested tier for
\* every other intent and for no intent.
C11_RouterNeverDowngrades ==
  \A i \in DOMAIN calls :
    LET c == calls[i]
        TierRank(t) == CASE t = "simple" -> 1 [] t = "medium" -> 2 [] t = "complex" -> 3
        TierConfig(t) ==
          CASE t = "simple" -> [model |-> "gpt-4o-mini", max_tokens |-> 500,
                                temperature |-> 3, tier |-> "simple"]
            [] t = "medium" -> [model |-> "gpt-4o-mini", max_tokens |-> 1000,
                                temperature |-> 5, tier |-> "medium"]
            [] t = "complex" -> [model |-> "gpt-4o", max_tokens |-> 2000,
                                 temperature |-> 7, tier |-> "complex"]
    IN /\ c.config.tier \in Complexity
       /\ c.config = TierConfig(c.config.tier)
       /\ TierRank(c.config.tier) >= TierRank(c.complexity)
       /\ c.intent \in {"complaint", "refund_request", "escalation_request"}
            => c.config.tier = "complex"
       /\ c.intent \notin {"complaint", "refund_request", "escalation_request"}
            => c.config.tier = c.complexity

\* C11 witness: a simple refund request was given the complex tier, and a
\* medium call without intent the medium one.
C11_Witness ==
  /\ Len(calls) = 2
  /\ calls[1].intent = "refund_request"
  /\ calls[1].complexity = "simple"
  /\ calls[1].config.tier = "complex"
  /\ calls[2].intent = "None"
  /\ calls[2].complexity = "medium"
  /\ calls[2].config.tier = "medium"

\* C12 (as stated): no call of a tool's execute raises, whatever keyword
\* arguments it is given and whether or not the provider fails; it returns a
\* ToolResult, with a non-empty error whenever success is false.
C12_ToolsNeverRaise ==
  \A i \in DOMAIN calls :
    /\ calls[i].outcome.raised = "None"
    /\ ~calls[i].outcome.result.success => calls[i].outcome.result.error \notin {"None", ""}
    /\ calls[i].fault => ~calls[i].outcome.result.success

\* C13 (as stated): execute on a name that is not registered returns a
\* failed ToolResult saying the tool was not found; it does not raise,
\* executes no tool and leaves the registry as it was.
C13_UnknownToolNotFound ==
  \A i \in DOMAIN calls :
    calls[i].name \notin calls[i].before =>
      /\ calls[i].outcome.raised = "None"
      /\ ~calls[i].outcome.result.success
      /\ calls[i].outcome.result.error = "Tool not found"
      /\ calls[i].executed = "None"
      /\ calls[i].after = calls[i].before

\* C14 (as stated): when writing the interaction log fails, the caller of
\* process still receives the response text, tools_used and escalated flag
\* the agent computed, together with a report of the failure.
C14_LogFailureKeepsResponse ==
  (pc = "done" /\ raised.at = "log") =>
    /\ result.response_text = agent_response.response_text
    /\ result.tools_used = agent_response.tools_used
    /\ result.escalated = agent_response.escalated
    /\ result.error \notin {"None", ""}

\* C15: the step in which a model-backend call fails is the last step of the
\* run: it makes that one call, executes no tool, and hands the caller
\* success = false with an error text; no step follows it.
C15_FailureStep ==
  raised'.exc = "BackendError" =>
    /\ raised.exc = "None"
    /\ classify_calls' + loop_calls' = classify_calls + loop_calls + 1
    /\ UNCHANGED <<tools_used, tool_results, escalations, messages, interaction_logs>>
    /\ pc' = "done"
    /\ ~result'.success
    /\ result'.error \notin {"None", ""}

C15_BackendFailureIsHard == [][C15_FailureStep]_vars

\* C15 witness: the third call of the loop failed, after two tool calls.
C15_Witness ==
  /\ raised = [exc |-> "BackendError", at |-> "chat_completion"]
  /\ pc = "done"
  /\ loop_calls = 3
  /\ Len(tools_used) = 2
  /\ ~result.success

\* C16: when the sender address has no domain, no top-level domain, a
\* one-letter top-level domain, or is empty, process returns a failure with
\* an error text, and nothing else has happened: no classify call, no
\* conversational call, no tool, no interaction log, no escalation record.
C16_MalformedSenderRejected ==
  LET MalformedAddresses ==
        { <<"j">>, <<"j", "@", "x">>, <<"j", "@", "x", ".", "c">>, <<>> }
  IN (pc # "start" /\ sender_email \in MalformedAddresses) =>
       /\ pc = "done"
       /\ raised = [exc |-> "InvalidEmail", at |-> "parse"]
       /\ ~result.success
       /\ result.error = "Invalid email address"
       /\ classify_calls = 0
       /\ loop_calls = 0
       /\ tools_used = <<>>
       /\ tool_results = <<>>
       /\ messages = <<>>
       /\ interaction_logs = 0
       /\ escalations = <<>>

\* C16 witness: an address with a one-letter top-level domain was rejected.
C16_Witness ==
  /\ pc = "done"
  /\ sender_email = <<"j", "@", "x", ".", "c">>
  /\ ~result.success
  /\ raised.at = "parse"

\* A run executed alone on the responses s, after k steps.
RECURSIVE AloneAfter(_, _)
AloneAfter(s, k) ==
  IF k = 0 THEN StartRun(s)
  ELSE LET before == AloneAfter(s, k - 1) IN StepRun(before.c, before.d)

\* C17: whatever the interleaving, each run's transcript, tools_used,
\* tool_results and token totals are at every await, and when it returns,
\* those of the same run executed alone on the same backend responses.
C17_RunsIndependent ==
  \A id \in DOMAIN runs :
    runs[id].c.pc # "idle" =>
      LET alone == AloneAfter(runs[id].c.taken \o runs[id].c.script, runs[id].c.steps)
      IN /\ runs[id].d = alone.d
         /\ runs[id].c = alone.c

\* C17 witness: two runs in flight, each past a tool call of its own; one
\* has returned an escalation and the other an answer.
C17_Witness ==
  /\ runs[1].c.exit = "ESCALATED_VIA_TOOL"
  /\ runs[2].c.exit = "FINALIZED"
  /\ runs[1].d.tools_used = <<"track_package", "escalate_to_human">>
  /\ runs[2].d.tools_used = <<"get_order">>
  /\ runs[2].d.total_input_tokens = 4

\* C18 (as stated): in every response process_email returns, tools_used and
\* tool_results have the same length and the i-th result is a record of
\* tool, args and result whose tool is the i-th name of tools_used.
C18_ToolResultsAligned ==
  exit # "None" =>
    /\ Len(agent_response.tool_results) = Len(agent_response.tools_used)
    /\ \A i \in DOMAIN agent_response.tool_results :
         /\ DOMAIN agent_response.tool_results[i] = {"tool", "args", "result"}
         /\ agent_response.tool_results[i].tool = agent_response.tools_used[i]

\* The forms of an order number n the lookup should not tell apart: n, n
\* after the sign, and either of them between blanks.
Forms(n) ==
  { n, <<"#">> \o n, <<" ">> \o n \o <<" ">>, <<" ", "#">> \o n \o <<" ">> }

\* C19: normalizing an order number twice gives what normalizing it once
\* gives, and get_order gives the same order for an order number, for the
\* sign followed by it, and for either of these between blanks.
C19_NormalizationIdempotentAndInsensitive ==
  /\ \A i \in DOMAIN calls :
       DOMAIN calls[i] = {"order_number", "normalized", "again", "order"}
         => calls[i].again = calls[i].normalized
  /\ \A i \in DOMAIN calls, j \in DOMAIN calls :
       ( /\ DOMAIN calls[i] = {"order_number", "normalized", "again", "order"}
         /\ DOMAIN calls[j] = DOMAIN calls[i]
         /\ calls[j].order_number \in Forms(calls[i].order_number) )
         => calls[j].order = calls[i].order

\* The threshold a call is made with, the default standing for one left out.
ThresholdOf(c) ==
  IF c.threshold = <<>> THEN rag_similarity_threshold ELSE c.threshold[1]

\* The entries of a list that are at or above a threshold, in their order.
AtOrAbove(s, t) ==
  LET Keep(r) == r.score >= t IN SelectSeq(s, Keep)

\* C20: what search_with_threshold returns is what search returns for the
\* same query, category and limit with the entries below the threshold taken
\* out: nothing added, every entry at or above the threshold kept (one equal
\* to it too), the order of the kept entries unchanged.
C20_ThresholdFiltersSearch ==
  \A i \in DOMAIN calls :
    DOMAIN calls[i] =
      {"query", "category", "threshold", "limit", "results", "output"}
    => /\ calls[i].results
            \in search(calls[i].query, calls[i].category, calls[i].limit)
       /\ calls[i].output = AtOrAbove(calls[i].results, ThresholdOf(calls[i]))

\* A call where an entry below the threshold was returned by search, and two
\* entries are kept, one of them right at the threshold.
C20_Witness ==
  \E i \in DOMAIN calls :
    /\ DOMAIN calls[i] =
         {"query", "category", "threshold", "limit", "results", "output"}
    /\ calls[i].threshold # <<>>
    /\ Len(calls[i].output) >= 2
    /\ Len(calls[i].output) < Len(calls[i].results)
    /\ \E k \in DOMAIN calls[i].output :
         calls[i].output[k].score = calls[i].threshold[1]

\* Whether no row that a search of the table for the query and category of
\* a call may return scores at or above the default threshold.
NothingRelevant(c) ==
  \A i \in Selected(c.table, c.category) :
    c.table[i].score[c.query] < rag_similarity_threshold

\* C21: when no entry of the knowledge base scores at or above the threshold
\* for the query (the knowledge base may be empty), search_knowledge_base
\* returns success = true with an empty list of results and a message; it
\* returns success = false exactly when the retrieval itself fails.
C21_NoMatchIsSuccess ==
  \A i \in DOMAIN calls :
    DOMAIN calls[i] = {"tool", "table", "query", "category", "fault", "outcome"}
    => /\ calls[i].outcome.success = ~calls[i].fault
       /\ (~calls[i].fault /\ NothingRelevant(calls[i]))
            => /\ calls[i].outcome.success
               /\ DOMAIN calls[i].outcome.data = {"kind", "results", "message"}
               /\ calls[i].outcome.data.results = <<>>
               /\ calls[i].outcome.data.message # ""
               /\ calls[i].outcome.error = "None"

\* Two searches without a fault that found nothing: one of the empty table,
\* one of a table whose rows all score below the threshold for the query.
C21_Witness ==
  \E i \in DOMAIN calls, j \in DOMAIN calls :
    /\ DOMAIN calls[i] = {"tool", "table", "query", "category", "fault", "outcome"}
    /\ DOMAIN calls[j] = DOMAIN calls[i]
    /\ calls[i].table = <<>> /\ ~calls[i].fault
    /\ calls[j].table # <<>> /\ ~calls[j].fault
    /\ calls[j].category = "None"
    /\ NothingRelevant(calls[j])
    /\ calls[i].outcome.data.results = <<>>
    /\ calls[j].outcome.data.results = <<>>

\* The orders of the file that carry the order number asked for, once the
\* sign and the blanks around both are taken off.
Matching(order_number) ==
  { i \in DOMAIN orders :
      normalize_order_number(orders[i].order_number)
        = normalize_order_number(order_number) }

\* C22: get_fulfillment returns success = true with one of three payloads:
\* found = false when no order has the number; found = true, fulfilled =
\* false and the status of the order when the order has no fulfillment;
\* found = true, fulfilled = true and the fulfillment when it has one.
C22_FulfillmentShapes ==
  \A i \in DOMAIN calls :
    ( /\ DOMAIN calls[i] = {"tool", "order_number", "fault", "outcome"}
      /\ calls[i].tool = "get_fulfillment"
      /\ ~calls[i].fault )
    => LET data == calls[i].outcome.data
           found == Matching(calls[i].order_number)
           first == CHOOSE m \in found : \A n \in found : m <= n
       IN /\ calls[i].outcome.success
          /\ IF found = {}
             THEN /\ DOMAIN data = {"kind", "found", "message"}
                  /\ data.found = FALSE
             ELSE IF orders[first].fulfillment.kind # "dict"
             THEN /\ DOMAIN data =
                       {"kind", "found", "fulfilled", "order_status", "message"}
                  /\ data.found /\ ~data.fulfilled
                  /\ data.order_status = orders[first].status
             ELSE /\ DOMAIN data = {"kind", "found", "fulfilled", "fulfillment"}
                  /\ data.found /\ data.fulfilled
                  /\ data.fulfillment.status = orders[first].fulfillment.status
                  /\ data.fulfillment.tracking_number
                       = orders[first].fulfillment.tracking_number

\* Two calls without a fault: one about a number of no order, one about an
\* order that has not been shipped.
C22_Witness ==
  \E i \in DOMAIN calls, j \in DOMAIN calls :
    /\ DOMAIN calls[i] = {"tool", "order_number", "fault", "outcome"}
    /\ DOMAIN calls[j] = DOMAIN calls[i]
    /\ calls[i].tool = "get_fulfillment" /\ calls[j].tool = "get_fulfillment"
    /\ ~calls[i].fault /\ ~calls[j].fault
    /\ Matching(calls[i].order_number) = {}
    /\ calls[i].outcome.data.found = FALSE
    /\ Matching(calls[j].order_number) # {}
    /\ calls[j].outcome.data.found
    /\ ~calls[j].outcome.data.fulfilled

RECURSIVE SumPrompt(_)
\* The prompt tokens of a list of calls, a usage that is absent counting 0.
SumPrompt(log) ==
  IF log = <<>> THEN 0
  ELSE (IF Head(log).usage.present THEN Head(log).usage.prompt_tokens ELSE 0)
       + SumPrompt(Tail(log))

RECURSIVE SumCompletion(_)
\* The same for the completion tokens.
SumCompletion(log) ==
  IF log = <<>> THEN 0
  ELSE (IF Head(log).usage.present THEN Head(log).usage.completion_tokens ELSE 0)
       + SumCompletion(Tail(log))

\* C23: in a response that left the loop (final answer, tool-triggered
\* escalation, exhaustion) tokens_input and tokens_output are the sums of the
\* usage of all the backend calls of the loop of that run, a call without
\* usage counting 0; all along the loop the counters are the sums so far, so
\* they never decrease.
C23_TokensCumulative ==
  /\ pc \in {"converse", "tools"} =>
       /\ total_input_tokens = SumPrompt(loop_log)
       /\ total_output_tokens = SumCompletion(loop_log)
       /\ \A k \in 1..Len(loop_log) :
            /\ SumPrompt(SubSeq(loop_log, 1, k - 1)) <= SumPrompt(SubSeq(loop_log, 1, k))
            /\ SumCompletion(SubSeq(loop_log, 1, k - 1))
                 <= SumCompletion(SubSeq(loop_log, 1, k))
  /\ exit \in {"FINALIZED", "ESCALATED_VIA_TOOL", "EXHAUSTED"} =>
       /\ agent_response.tokens_input = SumPrompt(loop_log)
       /\ agent_response.tokens_output = SumCompletion(loop_log)
       /\ Len(loop_log) = loop_calls

\* C23 witness: an escalation asked for in the third response, after a
\* response without usage and two with different counts.
C23_Witness ==
  /\ exit = "ESCALATED_VIA_TOOL"
  /\ Len(loop_log) = 3
  /\ \E k \in DOMAIN loop_log :
       loop_log[k].returned /\ ~loop_log[k].usage.present
  /\ agent_response.tokens_input = 7
  /\ agent_response.tokens_output = 4

\* Whether a list begins with another.
IsPrefix(s, t) == Len(s) <= Len(t) /\ SubSeq(t, 1, Len(s)) = s

RECURSIVE Requested(_)
\* The names of the tool calls the assistant messages of a transcript ask
\* for, in the order they were asked.
Requested(transcript) ==
  IF transcript = <<>> THEN <<>>
  ELSE (IF Head(transcript).role = "assistant"
        THEN [i \in DOMAIN Head(transcript).tool_calls |->
                Head(transcript).tool_calls[i].name]
        ELSE <<>>)
       \o Requested(Tail(transcript))

\* C24: at every step of a run tools_used and tool_results are what they
\* were with at most something appended, the names are in the order the
\* tool calls were requested, and each result stands where its name does.
C24_ListsStep ==
  /\ IsPrefix(tools_used, tools_used')
  /\ IsPrefix(tool_results, tool_results')
  /\ IsPrefix(tools_used', Requested(messages'))
  /\ Len(tool_results') <= Len(tools_used')
  /\ \A i \in DOMAIN tool_results' : tool_results'[i].tool = tools_used'[i]

C24_ListsOnlyGrow == [][C24_ListsStep]_vars

\* C24 witness: three tool calls of two responses executed, in the order
\* they were asked for.
C24_Witness ==
  /\ tools_used = <<"get_order", "track_package", "get_order">>
  /\ Len(tool_results) = 3
  /\ loop_calls = 2
  /\ Requested(messages) = tools_used

\* Whether a transcript is the system message, the user message, and then
\* turns: an assistant message asking for tool calls followed by one tool
\* message per call, with the ids of the calls in their order.
WellFormed(transcript) ==
  /\ Len(transcript) >= 2
  /\ transcript[1].role = "system"
  /\ transcript[2].role = "user"
  /\ \A k \in 3..Len(transcript) : transcript[k].role \in {"assistant", "tool"}
  /\ Len(transcript) >= 3 => transcript[3].role = "assistant"
  /\ \A k \in 3..Len(transcript) :
       transcript[k].role = "assistant" =>
         LET n == Len(transcript[k].tool_calls)
         IN /\ n > 0
            /\ k + n <= Len(transcript)
            /\ \A i \in 1..n :
                 /\ transcript[k + i].role = "tool"
                 /\ transcript[k + i].tool_call_id = transcript[k].tool_calls[i].id
            /\ k + n < Len(transcript) => transcript[k + n + 1].role = "assistant"

\* C25: the transcript only grows by appending, and whenever the loop is
\* about to call the backend it is the system message, the user message and
\* then, for each assistant message that asked for tool calls, one tool
\* message per call id, in the order asked, before the next assistant message.
C25_TranscriptStep ==
  /\ IsPrefix(messages, messages')
  /\ pc' = "converse" => WellFormed(messages')

C25_TranscriptWellFormed == [][C25_TranscriptStep]_vars

\* C25 witness: the third call of the loop is about to be made, after a
\* response that asked for two tools and one that asked for one.
C25_Witness ==
  /\ pc = "converse"
  /\ iteration = 2
  /\ Len(messages) = 7
  /\ messages[3].role = "assistant"
  /\ Len(messages[3].tool_calls) = 2
  /\ messages[6].role = "assistant"
  /\ WellFormed(messages)

\* C26 (as stated): whenever process_email has returned a response with
\* escalated = true, on the immediate path or through the tool, the run has
\* added an escalation record of status pending.
C26_EscalatedHasRecord ==
  (exit # "None" /\ agent_response.escalated) =>
    \E k \in DOMAIN escalations : escalations[k].status = "pending"

\* The tier the claim expects of a classification that reaches the router.
ExpectedTier(c) ==
  IF c.intent \in {"complaint", "refund_request"} THEN "complex" ELSE c.complexity

\* C27: in a run that reaches the loop every backend call of the loop is
\* sent the one configuration the router gave, and model_used of the
\* response is its model; for a complaint or a refund request it is the
\* complex tier whatever the complexity; a run classified as an escalation
\* request never reaches the router.
C27_OneConfigPerRun ==
  /\ \A k \in DOMAIN loop_log :
       /\ loop_log[k].config = model_config
       /\ loop_log[k].config.tier = ExpectedTier(classification)
       /\ loop_log[k].config = tiers(ExpectedTier(classification))
  /\ pc \in {"converse", "tools"} => model_config = tiers(ExpectedTier(classification))
  /\ exit \in {"FINALIZED", "ESCALATED_VIA_TOOL", "EXHAUSTED"} =>
       agent_response.model_used = tiers(ExpectedTier(classification)).model
  /\ classification.intent = "escalation_request" =>
       /\ pc \notin {"route", "converse", "tools"}
       /\ model_config = NoModelConfig
       /\ loop_log = <<>>

\* C27 witness: a refund request classified as simple answered after two
\* backend calls, both sent the complex tier.
C27_Witness ==
  /\ classification.intent = "refund_request"
  /\ classification.complexity = "simple"
  /\ exit = "FINALIZED"
  /\ Len(loop_log) = 2
  /\ loop_log[1].config.tier = "complex"
  /\ loop_log[2].config.tier = "complex"
  /\ agent_response.model_used = "gpt-4o"

\* C28: a run whose classification text was no JSON, and so was classified
\* by default, is not escalated at once: it goes to the router, is given the
\* medium tier and enters the loop.
C28_DefaultNeverEscalatesAtOnce ==
  (classify_calls = 1 /\ raised.exc = "None" /\ pc # "classify"
     /\ content \in UnparseableTexts) =>
    /\ ~should_escalate(classification)
    /\ pc \in {"check", "route", "converse"}
    /\ exit = "None"
    /\ escalations = <<>>
    /\ pc = "converse" => model_config = tiers("medium")

\* C28 witness: a run classified by default stands at the first backend call
\* of the loop with the medium tier.
C28_Witness ==
  /\ content = <<Prose>>
  /\ classification = FallbackClassification
  /\ pc = "converse"
  /\ model_config.tier = "medium"
  /\ Len(messages) = 2

\* The four returns of process_email.
TerminalStates ==
  {"ESCALATED_IMMEDIATE", "FINALIZED", "ESCALATED_VIA_TOOL", "EXHAUSTED"}

\* C29 (as stated): when every call of the backend and of a tool returns, a
\* run of process_email that has begun ends in one of the four terminal
\* states, even if the backend asks for tools in every response.
C29_RunReachesTerminalState == (pc = "classify") ~> (exit \in TerminalStates)

\* C30 (as stated): after any sequence of updates a record created by
\* escalate_to_human has resolved_at set if and only if its status is
\* resolved.
C30_ResolvedAtIffResolved ==
  \A k \in DOMAIN escalations :
    (escalations[k].resolved_at # "None") <=> (escalations[k].status = "resolved")

====
